---- MODULE Spec2Model ----
(***************************************************************************)
(* Address resolution of the Price-Bot repository:                         *)
(*   - _consistency_pass_row           (src/adres_otodom.py)               *)
(*   - norm_key, map_old_voiv, filter_candidates, stable_values and        *)
(*     App.check_and_fill              (src/testy0703.py)                  *)
(*   - norm_val, build_mask, fix_name and the row loop of main             *)
(*                                     (src/popraw_adres.py)               *)
(*   - fill_from_teryt and its pick_unique                                 *)
(*                                     (src/build_kw_prefix_map.py)        *)
(*   - parsuj_adres_string and the enrichment after it                     *)
(*                                     (src/adres_otodom.py)               *)
(*   - the address part of pobierz_dane_z_otodom                           *)
(*                                     (src/scraper_otodom_mieszkania.py)  *)
(* and the data handling around it:                                        *)
(*   - filter_raport_move_to_odf       (src/EXCELoperacje.py)              *)
(*   - _pobierz_soup                   (src/scraper_otodom.py)             *)
(*   - App._start_pipeline and its worker                                  *)
(*                                     (src/bazadanych.py)                 *)
(*   - collect_links_all_pages and append_links_label                      *)
(*                                     (src/linki_mieszkania.py)           *)
(*   - przetworz_linki_do_csv          (src/scraper_otodom_mieszkania.py)  *)
(*                                                                         *)
(* Text.  A Python str is a TLA+ string, read one character at a time with *)
(* Head and Tail.  The module is ASCII, so a Polish letter is written as   *)
(* its base letter followed by one mark character that occurs nowhere else *)
(* in the texts of the model:                                              *)
(*     '  acute   (c' n' o' s' z')        ;  ogonek  (a; e;)               *)
(*     ~  stroke  (l~)                    ^  dot     (z^)                  *)
(* so "L~o'dz'" is the city of Lodz with its diacritics and "Lodz" is the  *)
(* same name typed without them.  The encoding is one to one: two texts    *)
(* are equal in Python exactly when their encodings are equal here.        *)
(***************************************************************************)
EXTENDS Integers, Sequences, FiniteSets, TLC

VARIABLES
    hist,       \* _consistency_pass_row: the row given, then the row after each call
    entries,    \* testy0703 App.entries: the text of the five Entry widgets of each row
    last,       \* what the last check_and_fill did to each row (<<>>: nothing yet)
    clicks,     \* how often "Sprawdzam" (check_and_fill) has been clicked
    dialog,     \* testy0703: the error box of load_teryt on the screen
    df,         \* popraw_adres main: the input sheet, one row per element
    teryt,      \* popraw_adres main: the TERYT sheet
    idx,        \* popraw_adres main: the row the loop over df.iterrows() is at
    run,        \* popraw_adres main: where the run is ("idle" before it starts)
    trail,      \* what the loop body did for each row it has been through
    saved,      \* the sheet written to args.zapis (<<>>: nothing written)
    exc,        \* popraw_adres main: the schema error that ended the run
    processed,  \* popraw_adres main: the rows with a Nr KW the loop has counted
    asked,      \* registry queries: a query, then the queries relaxed from it
    voiv,       \* map_old_voiv: the name given, then the name after each call
    filled,     \* build_kw_prefix_map: what the last fill_from_teryt did
    parsed,     \* adres_otodom: the address text given, then what was made of it
    book,       \* EXCELoperacje: the workbook, its calls and what they returned
    nav,        \* _pobierz_soup: the attempts of driver.get and how the call ended
    pipe,       \* bazadanych.App: the worker thread, the scripts run, the status
    crawl,      \* linki_mieszkania: the run of collect_links_all_pages
    fetch,      \* przetworz_linki_do_csv: the links, the attempts, the records
    stored      \* linki_mieszkania: the links file and the calls of append_links_label

vars ==
    <<hist, entries, last, clicks, dialog,
      df, teryt, idx, run, trail, saved, exc, processed, asked, voiv,
      filled, parsed, book, nav, pipe, crawl, fetch, stored>>

enforceVars == <<hist>>
guiVars     == <<entries, last, clicks, dialog>>
batchVars   == <<df, teryt, idx, run, trail, saved, exc, processed>>
queryVars   == <<asked>>
voivVars    == <<voiv>>
hintVars    == <<filled>>
parseVars   == <<parsed>>
bookVars    == <<book>>
navVars     == <<nav>>
pipeVars    == <<pipe>>
crawlVars   == <<crawl>>
fetchVars   == <<fetch>>
storedVars  == <<stored>>

\* the variables an action of one part leaves alone
notEnforce == <<guiVars, batchVars, queryVars, voivVars, hintVars, parseVars,
      bookVars, navVars, pipeVars, crawlVars, fetchVars, storedVars>>
notGui == <<enforceVars, batchVars, queryVars, voivVars, hintVars, parseVars,
      bookVars, navVars, pipeVars, crawlVars, fetchVars, storedVars>>
notBatch == <<enforceVars, guiVars, queryVars, voivVars, hintVars, parseVars,
      bookVars, navVars, pipeVars, crawlVars, fetchVars, storedVars>>
notQuery == <<enforceVars, guiVars, batchVars, voivVars, hintVars, parseVars,
      bookVars, navVars, pipeVars, crawlVars, fetchVars, storedVars>>
notVoiv == <<enforceVars, guiVars, batchVars, queryVars, hintVars, parseVars,
      bookVars, navVars, pipeVars, crawlVars, fetchVars, storedVars>>
notHint == <<enforceVars, guiVars, batchVars, queryVars, voivVars, parseVars,
      bookVars, navVars, pipeVars, crawlVars, fetchVars, storedVars>>
notParse == <<enforceVars, guiVars, batchVars, queryVars, voivVars, hintVars,
      bookVars, navVars, pipeVars, crawlVars, fetchVars, storedVars>>
notBook == <<enforceVars, guiVars, batchVars, queryVars, voivVars, hintVars,
      parseVars, navVars, pipeVars, crawlVars, fetchVars, storedVars>>
notNav == <<enforceVars, guiVars, batchVars, queryVars, voivVars, hintVars,
      parseVars, bookVars, pipeVars, crawlVars, fetchVars, storedVars>>
notPipe == <<enforceVars, guiVars, batchVars, queryVars, voivVars, hintVars,
      parseVars, bookVars, navVars, crawlVars, fetchVars, storedVars>>
notCrawl == <<enforceVars, guiVars, batchVars, queryVars, voivVars, hintVars,
      parseVars, bookVars, navVars, pipeVars, fetchVars, storedVars>>
notFetch == <<enforceVars, guiVars, batchVars, queryVars, voivVars, hintVars,
      parseVars, bookVars, navVars, pipeVars, crawlVars, storedVars>>
notStored == <<enforceVars, guiVars, batchVars, queryVars, voivVars, hintVars,
      parseVars, bookVars, navVars, pipeVars, crawlVars, fetchVars>>

\* no schema error: absent is the set of required columns the sheet lacks,
\* named the columns the message of the error names, in its order
NoError == [absent |-> {}, named |-> <<>>]

(***************************************************************************)
(* str helpers                                                             *)
(***************************************************************************)
UPPER == "ABCDEFGHIJKLMNOPQRSTUVWXYZ"
LOWER == "abcdefghijklmnopqrstuvwxyz"

\* the characters the encoding uses as diacritic marks
MARKS == {"'", ";", "~", "^"}

\* \s of the re module, over the characters the model's texts hold
IsSpace(c) == c \in {" ", "\t"}

\* str.lower() of one character (a mark follows its letter and has no case)
LowerChar(c) ==
    IF \E i \in 1..Len(UPPER) : SubSeq(UPPER, i, i) = c
    THEN LET i == CHOOSE j \in 1..Len(UPPER) : SubSeq(UPPER, j, j) = c
         IN  SubSeq(LOWER, i, i)
    ELSE c

RECURSIVE Lower(_)
\* str.lower()
Lower(s) == IF s = "" THEN "" ELSE LowerChar(Head(s)) \o Lower(Tail(s))

RECURSIVE LStrip(_)
\* str.lstrip()
LStrip(s) == IF s # "" /\ IsSpace(Head(s)) THEN LStrip(Tail(s)) ELSE s

RECURSIVE RStrip(_)
\* str.rstrip()
RStrip(s) ==
    IF s # "" /\ IsSpace(SubSeq(s, Len(s), Len(s)))
    THEN RStrip(SubSeq(s, 1, Len(s) - 1))
    ELSE s

\* str.strip()
Strip(s) == RStrip(LStrip(s))

RECURSIVE CollapseSpaces(_)
\* re.sub(r"\s+", " ", s): every run of whitespace becomes one space
CollapseSpaces(s) ==
    IF s = "" THEN ""
    ELSE IF IsSpace(Head(s))
         THEN " " \o CollapseSpaces(LStrip(s))
         ELSE Head(s) \o CollapseSpaces(Tail(s))

\* _czysc(t): re.sub(r"\s+", " ", (t or "")).strip()
Czysc(t) == Strip(CollapseSpaces(t))

(***************************************************************************)
(* adres_otodom.py: the cities with county rights                          *)
(***************************************************************************)
CITY_COUNTY ==
    {"Warszawa", "Krako'w", "L~o'dz'", "Wrocl~aw", "Poznan'", "Gdan'sk", "Gdynia", "Sopot",
     "Szczecin", "Bydgoszcz", "Torun'", "Lublin", "Bial~ystok", "Katowice", "Kielce",
     "Rzeszo'w", "Olsztyn", "Opole", "Zielona Go'ra", "Gorzo'w Wielkopolski", "Jelenia Go'ra",
     "Wal~brzych", "Ruda S'la;ska", "Gliwice", "Zabrze", "Bytom", "Chorzo'w", "Tychy",
     "Da;browa Go'rnicza", "Sosnowiec", "Jaworzno", "Piekary S'la;skie", "S'wie;tochl~owice",
     "Siemianowice S'la;skie", "Mysl~owice", "Tarno'w", "Nowy Sa;cz", "Legnica", "Sl~upsk",
     "Koszalin", "Elbla;g", "Grudzia;dz"}

(***************************************************************************)
(* adres_otodom.py: _consistency_pass_row(row), on the three keys it reads *)
(* and writes.  A key is written only where the code assigns it; the       *)
(* assigned value is the cleaned (_czysc) one.                             *)
(***************************************************************************)
\* the same pass with the county/municipality of a city with county rights
\* filled only when empty, as dopelnij_powiat_gmina_jesli_brak fills them
ConsistencyPassRow_FillOnlyEmpty(row) ==
    LET msc0   == Czysc(row.miejscowosc)
        powiat == Czysc(row.powiat)
        gmina  == Czysc(row.gmina)
        fire1  == msc0 = "" /\ gmina # ""
        row1   == IF fire1 THEN [row EXCEPT !.miejscowosc = gmina] ELSE row
        msc1   == IF fire1 THEN gmina ELSE msc0
        fire2  == msc1 # "" /\ powiat # "" /\ Lower(msc1) = Lower(powiat) /\ gmina # ""
        row2   == IF fire2 THEN [row1 EXCEPT !.miejscowosc = gmina] ELSE row1
        msc2   == IF fire2 THEN gmina ELSE msc1
        row3   == IF msc2 \in CITY_COUNTY /\ powiat = ""
                  THEN [row2 EXCEPT !.powiat = msc2] ELSE row2
        row4   == IF msc2 \in CITY_COUNTY /\ gmina = ""
                  THEN [row3 EXCEPT !.gmina = msc2] ELSE row3
    IN  row4

ConsistencyPassRow(row) ==
    LET msc0   == Czysc(row.miejscowosc)
        powiat == Czysc(row.powiat)
        gmina  == Czysc(row.gmina)
        \* if not msc and gmina
        fire1  == msc0 = "" /\ gmina # ""
        row1   == IF fire1 THEN [row EXCEPT !.miejscowosc = gmina] ELSE row
        msc1   == IF fire1 THEN gmina ELSE msc0
        \* if msc and powiat and msc.lower() == powiat.lower() and gmina
        fire2  == msc1 # "" /\ powiat # "" /\ Lower(msc1) = Lower(powiat) /\ gmina # ""
        row2   == IF fire2 THEN [row1 EXCEPT !.miejscowosc = gmina] ELSE row1
        msc2   == IF fire2 THEN gmina ELSE msc1
        \* if msc in CITY_COUNTY
        row3   == IF msc2 \in CITY_COUNTY /\ (powiat = "" \/ Lower(powiat) # Lower(msc2))
                  THEN [row2 EXCEPT !.powiat = msc2] ELSE row2
        row4   == IF msc2 \in CITY_COUNTY /\ (gmina = "" \/ Lower(gmina) # Lower(msc2))
                  THEN [row3 EXCEPT !.gmina = msc2] ELSE row3
    IN  row4

(***************************************************************************)
(* Specification SpecEnforce: _consistency_pass_row applied, again and     *)
(* again, to a row drawn from AddrInputs.                                  *)
(***************************************************************************)
\* how many times the pass is applied to one row
MaxPasses == 2

\* the texts a field of the row starts with: empty, a city with county
\* rights in three spellings, a second such city, and a plain locality
AddrInputs ==
    {"", "Warszawa", "WARSZAWA", " Warszawa", "Krako'w", "Piaseczno", "piaseczno"}

AddrRows == [miejscowosc : AddrInputs, powiat : AddrInputs, gmina : AddrInputs]

\* the row as the last call left it
LastRow == hist[Len(hist)]

\* the GUI of testy0703 is not running
GuiIdle == entries = <<>> /\ last = <<>> /\ clicks = 0 /\ dialog = NoError

\* popraw_adres is not running
BatchIdle ==
    /\ df = <<>> /\ teryt = <<>> /\ idx = 0
    /\ run = "idle" /\ trail = <<>> /\ saved = <<>> /\ exc = NoError
    /\ processed = 0

\* _consistency_pass_row is not being exercised
EnforceIdle == hist = <<>>

\* no registry query is being exercised
QueryIdle == asked = <<>>

\* map_old_voiv is not being exercised
VoivIdle == voiv = <<>>

\* fill_from_teryt is not being exercised
HintIdle == filled = <<>>

\* the address parser is not being exercised
ParseIdle == parsed = <<>>

\* no workbook is being filtered
BookIdle == book = <<>>

\* no page is being fetched
NavIdle == nav = <<>>

\* the download GUI is not open
PipeIdle == pipe = <<>>

\* no listing is being crawled
CrawlIdle == crawl = <<>>

\* no list of links is being processed
FetchIdle == fetch = <<>>

\* no links file is being appended to
StoredIdle == stored = <<>>

\* every part but the one named is idle
OthersIdle(part) ==
    /\ part = "enforce" \/ EnforceIdle
    /\ part = "gui" \/ GuiIdle
    /\ part = "batch" \/ BatchIdle
    /\ part = "query" \/ QueryIdle
    /\ part = "voiv" \/ VoivIdle
    /\ part = "hint" \/ HintIdle
    /\ part = "parse" \/ ParseIdle
    /\ part = "book" \/ BookIdle
    /\ part = "nav" \/ NavIdle
    /\ part = "pipe" \/ PipeIdle
    /\ part = "crawl" \/ CrawlIdle
    /\ part = "fetch" \/ FetchIdle
    /\ part = "stored" \/ StoredIdle

InitEnforce ==
    /\ \E r \in AddrRows : hist = <<r>>
    /\ OthersIdle("enforce")

ConsistencyPass ==
    /\ Len(hist) >= 1
    /\ Len(hist) <= MaxPasses
    /\ hist' = Append(hist, ConsistencyPassRow(LastRow))
    /\ UNCHANGED notEnforce

NextEnforce == ConsistencyPass

SpecEnforce == InitEnforce /\ [][NextEnforce]_vars

(***************************************************************************)
(* C1.  _consistency_pass_row is idempotent: for every row, the row after  *)
(* two calls is the row after one call.                                    *)
(* Violated: from miejscowosc "Warszawa", gmina "WARSZAWA", no powiat, the *)
(* first call fills powiat "Warszawa"; the second then finds miejscowosc   *)
(* and powiat equal and a gmina present, and overwrites miejscowosc with   *)
(* "WARSZAWA".                                                             *)
(***************************************************************************)
C1_Idempotent == Len(hist) >= 3 => hist[3] = hist[2]

StartsWith(s, p) == Len(s) >= Len(p) /\ SubSeq(s, 1, Len(p)) = p

\* s.translate(DIAC_MAP): each of the nine Polish letters (either case)
\* becomes its base letter, which in the encoding drops the mark
RECURSIVE Translate_DIAC_MAP(_)
Translate_DIAC_MAP(s) ==
    IF s = "" THEN ""
    ELSE IF Head(s) \in MARKS
         THEN Translate_DIAC_MAP(Tail(s))
         ELSE Head(s) \o Translate_DIAC_MAP(Tail(s))

\* re.sub(r"^(wojew[oó]dztwo|woj\.)\s+", "", s): the prefix goes only when
\* whitespace follows it, and all of that whitespace goes with it
SubVoivPrefix(s) ==
    LET Cut(p) == LStrip(SubSeq(s, Len(p) + 1, Len(s)))
        Hit(p) == /\ StartsWith(s, p)
                  /\ Len(s) > Len(p)
                  /\ IsSpace(SubSeq(s, Len(p) + 1, Len(p) + 1))
    IN  IF Hit("wojewodztwo") THEN Cut("wojewodztwo")
        ELSE IF Hit("wojewo'dztwo") THEN Cut("wojewo'dztwo")
        ELSE IF Hit("woj.") THEN Cut("woj.")
        ELSE s

\* norm_key(s); None is the empty text here
norm_key(s) == Translate_DIAC_MAP(SubVoivPrefix(Lower(Strip(s))))

\* OLD_TO_NEW_VOIV_RAW, as (old name, new name) pairs
OLD_TO_NEW_VOIV_RAW ==
    {<<"bial~ostockie", "podlaskie">>, <<"bielskie", "s'la;skie">>,
     <<"bydgoskie", "kujawsko-pomorskie">>, <<"chel~mskie", "lubelskie">>,
     <<"ciechanowskie", "mazowieckie">>, <<"cze;stochowskie", "s'la;skie">>,
     <<"elbla;skie", "warmin'sko-mazurskie">>, <<"gdan'skie", "pomorskie">>,
     <<"gorzowskie", "lubuskie">>, <<"jeleniogo'rskie", "dolnos'la;skie">>,
     <<"kaliskie", "wielkopolskie">>, <<"katowickie", "s'la;skie">>,
     <<"kieleckie", "s'wie;tokrzyskie">>, <<"koszalin'skie", "zachodniopomorskie">>,
     <<"krakowskie", "mal~opolskie">>, <<"kros'nien'skie", "podkarpackie">>,
     <<"legnickie", "dolnos'la;skie">>, <<"leszczyn'skie", "wielkopolskie">>,
     <<"l~omz^yn'skie", "podlaskie">>, <<"nowosa;deckie", "mal~opolskie">>,
     <<"olsztyn'skie", "warmin'sko-mazurskie">>, <<"opole", "opolskie">>,
     <<"ostrol~e;ckie", "mazowieckie">>, <<"piotrkowskie", "l~o'dzkie">>,
     <<"pl~ockie", "mazowieckie">>, <<"poznan'skie", "wielkopolskie">>,
     <<"przemyskie", "podkarpackie">>, <<"radomskie", "mazowieckie">>,
     <<"rzeszowskie", "podkarpackie">>, <<"siedleckie", "mazowieckie">>,
     <<"sieradzkie", "l~o'dzkie">>, <<"skierniewickie", "l~o'dzkie">>,
     <<"sl~upskie", "pomorskie">>, <<"suwal~skie", "podlaskie">>,
     <<"szczecin'skie", "zachodniopomorskie">>, <<"tarnobrzeskie", "podkarpackie">>,
     <<"tarnowskie", "mal~opolskie">>, <<"torun'skie", "kujawsko-pomorskie">>,
     <<"wal~brzyskie", "dolnos'la;skie">>, <<"warszawskie", "mazowieckie">>,
     <<"wl~ocl~awskie", "kujawsko-pomorskie">>, <<"wrocl~awskie", "dolnos'la;skie">>,
     <<"zamojsko-chel~mskie", "lubelskie">>, <<"zielonogo'rskie", "lubuskie">>}

\* OLD_TO_NEW_VOIV = {norm_key(k): v for k, v in OLD_TO_NEW_VOIV_RAW.items()}
\* (no two old names share a key, so no entry overwrites another)
OLD_TO_NEW_VOIV == {<<norm_key(kv[1]), kv[2]>> : kv \in OLD_TO_NEW_VOIV_RAW}

\* map_old_voiv(name): OLD_TO_NEW_VOIV.get(norm_key(name), name)
map_old_voiv(name) ==
    LET n == norm_key(name)
    IN  IF \E kv \in OLD_TO_NEW_VOIV : kv[1] = n
        THEN (CHOOSE kv \in OLD_TO_NEW_VOIV : kv[1] = n)[2]
        ELSE name

(***************************************************************************)
(* testy0703.py: the registry and the candidate query                      *)
(***************************************************************************)
\* the five columns, in the order of the Entry widgets of a row; the
\* headers Województwo and Miejscowość are spelt in ASCII as field names
FIELDS == <<"Wojewodztwo", "Powiat", "Gmina", "Miejscowosc", "Dzielnica">>

FieldSet == {FIELDS[i] : i \in 1..Len(FIELDS)}

Rec(w, p, g, m, d) ==
    [Wojewodztwo |-> w, Powiat |-> p, Gmina |-> g, Miejscowosc |-> m, Dzielnica |-> d]

\* what load_teryt returns: the rows of the sheet TERYT, an empty cell as ""
TERYT_ROWS ==
    << Rec("Mazowieckie",  "z^yrardowski", "Z^yrardo'w", "Z^yrardo'w", ""),
       Rec("Mal~opolskie", "wadowicki",    "Wadowice",   "Wadowice",   "miasto"),
       Rec("Mal~opolskie", "wadowicki",    "Wadowice",   "Wadowice",   "obszar wiejski"),
       Rec("S'la;skie",    "Katowice",     "Katowice",   "Katowice",   "S'ro'dmies'cie"),
       Rec("S'la;skie",    "Katowice",     "Katowice",   "Katowice",   "") >>

\* the body of that loop with the test "if d and" lost: an empty key d is
\* compared with the record's Dzielnica like any other
RecOk_EmptyDzielnicaCompared(rec, wk, pk, gk, mk, dk) ==
    /\ ~(wk # "" /\ norm_key(rec.Wojewodztwo) # wk)
    /\ ~(pk # "" /\ norm_key(rec.Powiat) # pk)
    /\ ~(gk # "" /\ norm_key(rec.Gmina) # gk)
    /\ ~(mk # "" /\ norm_key(rec.Miejscowosc) # mk)
    /\ norm_key(rec.Dzielnica) = dk

\* the body of the loop of filter_candidates for one rec: ok stays True
\* unless a non-empty key differs from the record's normalised field
RecOk(rec, wk, pk, gk, mk, dk) ==
    /\ ~(wk # "" /\ norm_key(rec.Wojewodztwo) # wk)
    /\ ~(pk # "" /\ norm_key(rec.Powiat) # pk)
    /\ ~(gk # "" /\ norm_key(rec.Gmina) # gk)
    /\ ~(mk # "" /\ norm_key(rec.Miejscowosc) # mk)
    /\ ~(dk # "" /\ norm_key(rec.Dzielnica) # dk)

RECURSIVE KeepOk(_, _, _, _, _, _)
\* for rec in teryt_rows: ... if ok: out.append(rec)
KeepOk(teryt_rows, wk, pk, gk, mk, dk) ==
    IF teryt_rows = <<>> THEN <<>>
    ELSE (IF RecOk(Head(teryt_rows), wk, pk, gk, mk, dk) THEN <<Head(teryt_rows)>> ELSE <<>>)
         \o KeepOk(Tail(teryt_rows), wk, pk, gk, mk, dk)

\* filter_candidates(teryt_rows, w, p, g, m, d); None is passed as ""
filter_candidates(teryt_rows, w, p, g, m, d) ==
    KeepOk(teryt_rows,
           IF w # "" THEN norm_key(map_old_voiv(w)) ELSE "",
           IF p # "" THEN norm_key(p) ELSE "",
           IF g # "" THEN norm_key(g) ELSE "",
           IF m # "" THEN norm_key(m) ELSE "",
           IF d # "" THEN norm_key(d) ELSE "")

\* the values a field takes among the candidates, blank ones left out:
\* {rec[f] for rec in cands if str(rec[f]).strip() != ""}
StableVals(cands, f) ==
    {cands[i][f] : i \in {j \in 1..Len(cands) : Strip(cands[j][f]) # ""}}

\* stable_values(cands) with the value written in its normalised spelling,
\* as a set built from norm_key(rec[f]) would give
stable_values_Normalised(cands) ==
    [f \in {x \in FieldSet : Cardinality(StableVals(cands, x)) = 1} |->
        norm_key(CHOOSE v \in StableVals(cands, f) : TRUE)]

\* stable_values(cands): the dict of the fields with exactly one value
stable_values(cands) ==
    [f \in {x \in FieldSet : Cardinality(StableVals(cands, x)) = 1} |->
        CHOOSE v \in StableVals(cands, f) : TRUE]

(***************************************************************************)
(* testy0703.py: App.check_and_fill, one row of Entry widgets at a time    *)
(***************************************************************************)
\* one call of filter_candidates, as check_and_fill makes it: the level
\* (1 = A full filters, 2 = B woj + miejscowosc, 3 = C miejscowosc alone,
\* 4 = D gmina alone), the five arguments passed and the rows returned
Query(teryt_rows, level, w, p, g, m, d) ==
    [level |-> level, args |-> <<w, p, g, m, d>>,
     result |-> filter_candidates(teryt_rows, w, p, g, m, d)]

Last(q) == q[Len(q)]

\* "if not cands and <cond>: cands = filter_candidates(...)": the query q
\* is made only when the last query returned no row and cond holds
OrElse(qs, cond, q) ==
    IF Last(qs).result = <<>> /\ cond THEN Append(qs, q) ELSE qs

\* "if <cond>: cands = filter_candidates(...)", the guard on cands lost
Also(qs, cond, q) == IF cond THEN Append(qs, q) ELSE qs

\* the queries of a row whose level D is guarded by "if g:" alone
Queries_UnguardedD(teryt_rows, w, p, g, m, d) ==
    Also(OrElse(OrElse(<<Query(teryt_rows, 1, w, p, g, m, d)>>,
                       w # "" \/ m # "", Query(teryt_rows, 2, w, "", "", m, "")),
                m # "", Query(teryt_rows, 3, "", "", "", m, "")),
         g # "", Query(teryt_rows, 4, "", "", g, "", ""))

\* lines 173-183: the queries made for a row, in the order made; each
\* assigns cands, so the candidates used are the last query's rows
\*   A: cands = filter_candidates(trows, w, p, g, m, d)
\*   B: if not cands and (w or m): filter_candidates(trows, w, None, None, m, None)
\*   C: if not cands and m:        filter_candidates(trows, None, None, None, m, None)
\*   D: if not cands and g:        filter_candidates(trows, None, None, g, None, None)
Queries(teryt_rows, w, p, g, m, d) ==
    OrElse(OrElse(OrElse(<<Query(teryt_rows, 1, w, p, g, m, d)>>,
                         w # "" \/ m # "", Query(teryt_rows, 2, w, "", "", m, "")),
                  m # "", Query(teryt_rows, 3, "", "", "", m, "")),
           g # "", Query(teryt_rows, 4, "", "", g, "", ""))

\* step 0 with the field rewritten whenever a province is typed
Step0_Always(row) ==
    LET w == Strip(row.Wojewodztwo)
    IN  IF w # "" THEN [row EXCEPT !.Wojewodztwo = map_old_voiv(w)] ELSE row

\* lines 166-171: an old province name in the field is replaced at once;
\* the field is rewritten only when the mapped name differs from its text
Step0(row) ==
    LET w      == Strip(row.Wojewodztwo)
        mapped == map_old_voiv(w)
    IN  IF w # "" /\ mapped # w THEN [row EXCEPT !.Wojewodztwo = mapped] ELSE row

\* one candidate, filling only the fields the row left empty
\* (the policy of popraw_adres.py)
FillOne_OnlyEmpty(row, rec) ==
    [f \in FieldSet |-> IF Strip(row[f]) = "" THEN rec[f] ELSE row[f]]

\* lines 185-190: one candidate, every Entry is deleted and set to str(v)
FillOne(row, rec) == [f \in FieldSet |-> rec[f]]

\* lines 196-198: several candidates, the Entry of each key of stab is set
FillStable(row, stab) ==
    [f \in FieldSet |-> IF f \in DOMAIN stab THEN stab[f] ELSE row[f]]

\* w, p, g, m, d = [e.get().strip() for e in row_entries], w then being
\* the text step 0 left in the first Entry
ReadRow(row0, row) ==
    <<Strip(row0.Wojewodztwo), Strip(row.Powiat), Strip(row.Gmina),
      Strip(row.Miejscowosc), Strip(row.Dzielnica)>>

\* lines 185-200: the fill, from the candidates the queries ended with.
\* The record keeps what the loop body read (read), the queries it made,
\* the candidates, the Entry widgets the fill wrote and the row it left.
Outcome(row, row0, read, qs) ==
    [before  |-> row,
     read    |-> read,
     queries |-> qs,
     cands   |-> Last(qs).result,
     written |-> IF Len(Last(qs).result) = 1 THEN FieldSet
                 ELSE IF Len(Last(qs).result) > 1 THEN DOMAIN stable_values(Last(qs).result)
                 ELSE {},
     after   |-> IF Len(Last(qs).result) = 1 THEN FillOne(row0, Last(qs).result[1])
                 ELSE IF Len(Last(qs).result) > 1
                      THEN FillStable(row0, stable_values(Last(qs).result))
                 ELSE row0]

\* the queries for what was read
RowQueries(teryt_rows, read) ==
    Queries(teryt_rows, read[1], read[2], read[3], read[4], read[5])

\* the body of the loop over self.entries, for one row
CheckRow(teryt_rows, row) ==
    Outcome(row, Step0(row), ReadRow(Step0(row), row),
            RowQueries(teryt_rows, ReadRow(Step0(row), row)))

(***************************************************************************)
(* Specification SpecMatcher: the window of testy0703.  The user types     *)
(* into the Entry widgets, clicks "Sprawdzam" (check_and_fill runs over    *)
(* every row, possibly again over its own output) or "Generuj pola"        *)
(* (gen_rows: fresh empty rows).                                           *)
(***************************************************************************)
\* rows of Entry widgets in the window (n_rows_var)
NumRows == 1

\* check_and_fill runs between two gen_rows
MaxClicks == 2

\* what the user types into a field
Typed ==
    [Wojewodztwo |-> {"", "mazowieckie", "katowickie", "Mazowieckie "},
     Powiat      |-> {"", "zzz"},
     Gmina       |-> {"", "Wadowice"},
     Miejscowosc |-> {"", "zyrardow", "Katowice", "Nigdzie"},
     Dzielnica   |-> {"", "centrum"}]

EmptyRow == [f \in FieldSet |-> ""]

InitMatcher ==
    /\ entries = [r \in 1..NumRows |-> EmptyRow]
    /\ last = <<>>
    /\ clicks = 0
    /\ dialog = NoError
    /\ OthersIdle("gui")

\* the user edits one Entry
TypeCell(r, f, v) ==
    /\ clicks = 0
    /\ entries[r][f] # v
    /\ entries' = [entries EXCEPT ![r][f] = v]
    /\ dialog' = NoError
    /\ UNCHANGED <<last, clicks, notGui>>

\* the header cells of the first row of a TERYT sheet: the five required
\* ones, some of Powiat, Gmina and Dzielnica left out, or Gmina written
\* with a space before it
HeaderRows ==
    {FieldSet \ out : out \in SUBSET {"Powiat", "Gmina", "Dzielnica"}}
        \cup {(FieldSet \ {"Gmina"}) \cup {" Gmina"}}

RECURSIVE MissingOf(_, _)
\* [c for c in required if c not in columns]
MissingOf(required, columns) ==
    IF required = <<>> THEN <<>>
    ELSE IF Head(required) \in columns THEN MissingOf(Tail(required), columns)
    ELSE <<Head(required)>> \o MissingOf(Tail(required), columns)

\* load_teryt, line 50: the keys of headers, the header cells stripped
load_teryt_headers(cells) == {Strip(c) : c \in cells}

RECURSIVE load_teryt_raise(_, _)
\* load_teryt, lines 51-54: the loop over req raises RuntimeError
\* "Brak kolumny '{r}'" at the first r that is no header and so ends; the
\* result is what the message names (<<>>: the loop ended without raising)
load_teryt_raise(req, headers) ==
    IF req = <<>> THEN <<>>
    ELSE IF Head(req) \notin headers THEN <<Head(req)>>
    ELSE load_teryt_raise(Tail(req), headers)

\* check_and_fill, lines 156-160: load_teryt raises on a sheet with the
\* header cells given, the error box is shown and check_and_fill returns
\* before its loop over the rows
CheckAndFillNoSchema(cells) ==
    /\ Len(entries) > 0
    /\ load_teryt_raise(FIELDS, load_teryt_headers(cells)) # <<>>
    /\ dialog' = [absent |-> FieldSet \ load_teryt_headers(cells),
                  named  |-> load_teryt_raise(FIELDS, load_teryt_headers(cells))]
    /\ last' = <<>>
    /\ UNCHANGED <<entries, clicks, notGui>>

\* check_and_fill: TERYT.xlsx is loaded, then every row is processed
CheckAndFill ==
    /\ Len(entries) > 0
    /\ clicks < MaxClicks
    /\ LET done == [r \in 1..Len(entries) |-> CheckRow(TERYT_ROWS, entries[r])]
       IN  /\ last' = done
           /\ entries' = [r \in 1..Len(entries) |-> done[r].after]
    /\ clicks' = clicks + 1
    /\ dialog' = NoError
    /\ UNCHANGED notGui

\* gen_rows: the rows are destroyed and created anew, empty
GenRows ==
    /\ clicks > 0
    /\ entries' = [r \in 1..NumRows |-> EmptyRow]
    /\ last' = <<>>
    /\ clicks' = 0
    /\ dialog' = NoError
    /\ UNCHANGED notGui

NextMatcher ==
    \/ \E r \in 1..NumRows : \E f \in FieldSet : \E v \in Typed[f] : TypeCell(r, f, v)
    \/ CheckAndFill
    \/ \E cells \in HeaderRows : CheckAndFillNoSchema(cells)
    \/ GenRows

SpecMatcher == InitMatcher /\ [][NextMatcher]_vars

\* the rows the last check_and_fill processed
Checked == {r \in 1..Len(last) : TRUE}

(***************************************************************************)
(* C3.  With more than one candidate, a field is written only if all       *)
(* candidates carry the same value in it, an empty value next to a         *)
(* non-empty one counting as disagreement.                                 *)
(* Violated: stable_values leaves blank values out of the comparison, so   *)
(* with the two Katowice rows (Dzielnica "S'ro'dmies'cie" and "") the      *)
(* Dzielnica Entry is written.                                             *)
(***************************************************************************)
C3_WrittenOnlyIfAllAgree ==
    \A r \in Checked :
        Len(last[r].cands) > 1 =>
            \A f \in last[r].written :
                \A i, j \in 1..Len(last[r].cands) :
                    last[r].cands[i][f] = last[r].cands[j][f]

(***************************************************************************)
(* C4.  The levels are queried in the order A (full filters), B (woj and   *)
(* miejscowosc), C (miejscowosc alone), D (gmina alone), each with exactly *)
(* those filters; a level is queried only if every query before it         *)
(* returned no row; the candidates used are the rows of the first query    *)
(* that returned any (none if no query did).                               *)
(***************************************************************************)
\* the filters of a level, from what the row read
LevelArgs(level, read) ==
    CASE level = 1 -> read
      [] level = 2 -> <<read[1], "", "", read[4], "">>
      [] level = 3 -> <<"", "", "", read[4], "">>
      [] level = 4 -> <<"", "", read[3], "", "">>

C4_RelaxationOrder ==
    \A r \in Checked :
        LET qs == last[r].queries
            hits == {i \in 1..Len(qs) : qs[i].result # <<>>}
        IN  /\ Len(qs) >= 1 /\ qs[1].level = 1
            /\ \A i \in 1..Len(qs) :
                  /\ qs[i].level \in 1..4
                  /\ qs[i].args = LevelArgs(qs[i].level, last[r].read)
                  /\ qs[i].result = filter_candidates(TERYT_ROWS, qs[i].args[1], qs[i].args[2],
                                        qs[i].args[3], qs[i].args[4], qs[i].args[5])
            /\ \A i, j \in 1..Len(qs) :
                  i < j => qs[i].level < qs[j].level /\ qs[i].result = <<>>
            /\ last[r].cands =
                  IF hits = {} THEN <<>>
                  ELSE qs[CHOOSE i \in hits : \A j \in hits : i <= j].result

\* a row that went down to level D and found its candidates there
C4_Witness ==
    \E r \in Checked :
        /\ Len(last[r].queries) >= 3
        /\ Last(last[r].queries).level = 4
        /\ last[r].cands # <<>>

(***************************************************************************)
(* C5.  With exactly one candidate, each of the five fields of the row     *)
(* holds that record's value afterwards, whatever it held before.          *)
(***************************************************************************)
C5_ResolvedOverwritesAll ==
    \A r \in Checked :
        Len(last[r].cands) = 1 =>
            /\ \A f \in FieldSet : last[r].after[f] = last[r].cands[1][f]
            /\ entries[r] = last[r].after

\* one candidate, and a typed field that the record's value replaced
C5_Witness ==
    \E r \in Checked :
        /\ Len(last[r].cands) = 1
        /\ \E f \in FieldSet :
              /\ last[r].before[f] # ""
              /\ norm_key(last[r].before[f]) # norm_key(last[r].cands[1][f])
              /\ entries[r][f] = last[r].cands[1][f]

(***************************************************************************)
(* C6 as claimed.  With no candidate at any level, the five fields hold    *)
(* afterwards what they held before.                                       *)
(* Violated: "katowickie" with miejscowosc "Nigdzie" finds nothing, and    *)
(* the Wojewodztwo Entry holds "s'la;skie" afterwards (step 0).            *)
(***************************************************************************)
C6_UnresolvedUnchanged ==
    \A r \in Checked :
        last[r].cands = <<>> => last[r].after = last[r].before

(***************************************************************************)
(* C6 as amended.  With no candidate at any level, Powiat, Gmina,          *)
(* Miejscowosc and Dzielnica hold afterwards what they held before, and    *)
(* Wojewodztwo does too unless it held an old province name, which is      *)
(* replaced by the current name OLD_TO_NEW_VOIV_RAW gives for it.          *)
(***************************************************************************)
C6_UnresolvedOnlyProvinceMapped ==
    \A r \in Checked :
        last[r].cands = <<>> =>
            /\ entries[r] = last[r].after
            /\ \A f \in FieldSet \ {"Wojewodztwo"} : last[r].after[f] = last[r].before[f]
            /\ \/ last[r].after.Wojewodztwo = last[r].before.Wojewodztwo
               \/ \E kv \in OLD_TO_NEW_VOIV_RAW :
                     /\ norm_key(kv[1]) = norm_key(last[r].before.Wojewodztwo)
                     /\ last[r].after.Wojewodztwo = kv[2]

\* a row with typed fields for which every level queried returned nothing
C6_Witness ==
    \E r \in Checked :
        /\ last[r].cands = <<>>
        /\ Len(last[r].queries) >= 3
        /\ last[r].before.Miejscowosc # ""
        /\ Strip(last[r].before.Wojewodztwo) # last[r].before.Wojewodztwo
        /\ entries[r] = last[r].before

NaN == "<NaN>"

\* str(v) of a cell
Str(v) == IF v = NaN THEN "nan" ELSE v

\* " ".join(s.split())
JoinSplit(s) == Strip(CollapseSpaces(s))

\* str.casefold(); on the letters of these texts it is str.lower()
Casefold(s) == Lower(s)

\* norm_val(v), lines 85-91
norm_val(v) ==
    IF v = NaN THEN ""
    ELSE IF Lower(JoinSplit(v)) \in {"", "nan", "none", "null"} THEN ""
    ELSE Casefold(JoinSplit(v))

\* BUILTIN_NAME_MAP[None], lines 22-48
NAMES_GLOBAL ==
    {<<"lodz", "L~o'dz'">>, <<"krakow", "Krako'w">>, <<"poznan", "Poznan'">>,
     <<"wroclaw", "Wrocl~aw">>, <<"bialystok", "Bial~ystok">>,
     <<"radom", "Radom">>, <<"szczecin", "Szczecin">>,
     <<"zielona gora", "Zielona Go'ra">>,
     <<"gorzow wlkp.", "Gorzo'w Wielkopolski">>,
     <<"gorzow wielkopolski", "Gorzo'w Wielkopolski">>,
     <<"koszalin", "Koszalin">>, <<"bielsko biala", "Bielsko-Bial~a">>,
     <<"warszawa", "Warszawa">>, <<"gdansk", "Gdan'sk">>,
     <<"gdynia", "Gdynia">>, <<"sopot", "Sopot">>, <<"rzeszow", "Rzeszo'w">>,
     <<"olsztyn", "Olsztyn">>, <<"torun", "Torun'">>,
     <<"bydgoszcz", "Bydgoszcz">>, <<"katowice", "Katowice">>,
     <<"opole", "Opole">>, <<"kielce", "Kielce">>,
     <<"biala podlaska", "Bial~a Podlaska">>, <<"nowy sacz", "Nowy Sa;cz">>}

\* BUILTIN_NAME_MAP["Wojewodztwo"], lines 49-68
NAMES_WOJEWODZTWO ==
    {<<"dolnoslaskie", "Dolnos'la;skie">>,
     <<"kujawsko pomorskie", "Kujawsko-Pomorskie">>,
     <<"kujawsko-pomorskie", "Kujawsko-Pomorskie">>,
     <<"lubelskie", "Lubelskie">>, <<"lubuskie", "Lubuskie">>,
     <<"lodzkie", "L~o'dzkie">>, <<"malopolskie", "Mal~opolskie">>,
     <<"mazowieckie", "Mazowieckie">>, <<"opolskie", "Opolskie">>,
     <<"podkarpackie", "Podkarpackie">>, <<"podlaskie", "Podlaskie">>,
     <<"pomorskie", "Pomorskie">>, <<"slaskie", "S'la;skie">>,
     <<"swietokrzyskie", "S'wie;tokrzyskie">>,
     <<"warminsko mazurskie", "Warmin'sko-Mazurskie">>,
     <<"warminsko-mazurskie", "Warmin'sko-Mazurskie">>,
     <<"wielkopolskie", "Wielkopolskie">>,
     <<"zachodniopomorskie", "Zachodniopomorskie">>}

\* BUILTIN_NAME_MAP["Dzielnica"], lines 69-81
NAMES_DZIELNICA ==
    {<<"srodmiescie", "S'ro'dmies'cie">>,
     <<"praga polnoc", "Praga-Po'l~noc">>,
     <<"praga poludnie", "Praga-Pol~udnie">>, <<"bialoleka", "Bial~ol~e;ka">>,
     <<"bemowo", "Bemowo">>, <<"wola", "Wola">>, <<"ursynow", "Ursyno'w">>,
     <<"wlochy", "Wl~ochy">>, <<"targowek", "Targo'wek">>,
     <<"mokotow", "Mokoto'w">>, <<"ziebice", "Zie;bice">>}

\* merged.get(column, {}) of make_name_resolver called without custom map
ColMap(column) ==
    IF column = "Wojewodztwo" THEN NAMES_WOJEWODZTWO
    ELSE IF column = "Dzielnica" THEN NAMES_DZIELNICA
    ELSE {}

\* key in d
HasKey(d, key) == \E kv \in d : kv[1] = key

\* d[key]
Get(d, key) == (CHOOSE kv \in d : kv[1] = key)[2]

RECURSIVE CutFirstPrefix(_, _, _)
\* the loop of _strip_ulica_prefixes: the first prefix that low starts with
\* is cut from s, and what is left is lstripped
CutFirstPrefix(s, low, prefs) ==
    IF prefs = <<>> THEN s
    ELSE IF StartsWith(low, Head(prefs))
         THEN LStrip(SubSeq(s, Len(Head(prefs)) + 1, Len(s)))
         ELSE CutFirstPrefix(s, low, Tail(prefs))

\* _strip_ulica_prefixes(name), lines 119-127
strip_ulica_prefixes(name) ==
    JoinSplit(CutFirstPrefix(Strip(name), Casefold(Strip(name)),
                             <<"ul.", "ul ", "ul. ", "ulica ", "ul ">>))

\* fix_name, lines 175-182: clean, after the street prefixes are cut
CleanName(value, column) ==
    IF column = "Ulica"
    THEN strip_ulica_prefixes(JoinSplit(IF value = NaN THEN "" ELSE value))
    ELSE JoinSplit(IF value = NaN THEN "" ELSE value)

\* fix_name, lines 184-195: the column's map, then the global map, then
\* the cleaned value itself
ResolveName(clean, key, column) ==
    IF HasKey(ColMap(column), key) THEN Get(ColMap(column), key)
    ELSE IF HasKey(NAMES_GLOBAL, key) THEN Get(NAMES_GLOBAL, key)
    ELSE clean

\* fix_name(value, column)
fix_name(value, column) ==
    ResolveName(CleanName(value, column), norm_val(CleanName(value, column)), column)

(***************************************************************************)
(* popraw_adres.py: the sheets                                             *)
(***************************************************************************)
COL_NR_KW == "Nr KW"

\* ADDR_COLS, line 11
ADDR_COLS == FIELDS \o <<"Ulica">>

AddrColSet == {ADDR_COLS[i] : i \in 1..Len(ADDR_COLS)}

\* PRICE_COLS, lines 12-16
PRICE_COLS ==
    <<"S'rednia cena za m2 ( z bazy)", "S'rednia skorygowana cena za m2",
      "Statyczna wartos'c' nieruchomos'ci">>

PriceColSet == {PRICE_COLS[i] : i \in 1..Len(PRICE_COLS)}

\* base_teryt_cols, line 224
base_teryt_cols == FIELDS

\* the street column of the registry rows, when TERYT.xlsx has one
TERYT_ULICA == <<"Lipowa", NaN, NaN, "Mariacka", "Lipowa">>

\* pd.read_excel(args.teryt, dtype=str): the rows of TERYT_ROWS, an empty
\* cell as NaN, with the column Ulica or without it
TerytFrame(with_ulica) ==
    [i \in 1..Len(TERYT_ROWS) |->
        [c \in FieldSet \cup (IF with_ulica THEN {"Ulica"} ELSE {}) |->
            IF c = "Ulica" THEN TERYT_ULICA[i]
            ELSE IF TERYT_ROWS[i][c] = "" THEN NaN
            ELSE TERYT_ROWS[i][c]]]

\* teryt_has_ulica = "Ulica" in teryt.columns, line 228
teryt_has_ulica(ter) == "Ulica" \in DOMAIN ter[1]

\* a row of the input sheet: Nr KW, the six address cells, and the three
\* statistics cells still empty
InRow(kw, w, p, g, m, d, u) ==
    [c \in {COL_NR_KW} \cup AddrColSet \cup PriceColSet |->
        IF c = COL_NR_KW THEN kw
        ELSE IF c = "Wojewodztwo" THEN w
        ELSE IF c = "Powiat" THEN p
        ELSE IF c = "Gmina" THEN g
        ELSE IF c = "Miejscowosc" THEN m
        ELSE IF c = "Dzielnica" THEN d
        ELSE IF c = "Ulica" THEN u
        ELSE NaN]

\* lines 246-249: df[c] = df[c].apply(fix_name) for every address column
FixNames(frame) ==
    [i \in 1..Len(frame) |->
        [c \in DOMAIN frame[i] |->
            IF c \in AddrColSet THEN fix_name(frame[i][c], c) ELSE frame[i][c]]]

(***************************************************************************)
(* popraw_adres.py: build_mask, concat_address and the body of the loop    *)
(***************************************************************************)
\* build_mask(ter, probe, cols_for_matching), lines 101-108: the index of
\* the registry rows kept; ter[c + "__norm"] is norm_val of ter[c]
build_mask(ter, probe, cols_for_matching) ==
    {i \in 1..Len(ter) :
        \A c \in cols_for_matching :
            (c \in DOMAIN probe /\ norm_val(probe[c]) # "")
                => norm_val(ter[i][c]) = norm_val(probe[c])}

RECURSIVE AddressParts(_, _, _)
\* the loop of concat_address over the six column names
AddressParts(row, cols, order) ==
    IF order = <<>> THEN <<>>
    ELSE IF Head(order) \in cols
            /\ Strip(Str(row[Head(order)])) # ""
            /\ Lower(Strip(Str(row[Head(order)]))) \notin {"nan", "none", "null"}
         THEN <<Strip(Str(row[Head(order)]))>> \o AddressParts(row, cols, Tail(order))
         ELSE AddressParts(row, cols, Tail(order))

RECURSIVE Join(_, _)
\* sep.join(parts)
Join(parts, sep) ==
    IF parts = <<>> THEN ""
    ELSE IF Len(parts) = 1 THEN parts[1]
    ELSE parts[1] \o sep \o Join(Tail(parts), sep)

\* concat_address(row, cols), lines 110-117
concat_address(row, cols) == Join(AddressParts(row, cols, ADDR_COLS), ", ")

\* the ASCII characters of these texts in the order of their code points
CODEPOINTS ==
    " ',-./0123456789;<>ABCDEFGHIJKLMNOPQRSTUVWXYZ^abcdefghijklmnopqrstuvwxyz|~"

\* the Polish letters in the order of their code points, all of them above
\* the ASCII characters
ACCENTED ==
    <<"O'", "o'", "A;", "a;", "C'", "c'", "E;", "e;", "L~", "l~",
      "N'", "n'", "S'", "s'", "Z'", "z'", "Z^", "z^">>

\* the first character of a text is a Polish letter
AccentedHead(s) == Len(s) >= 2 /\ SubSeq(s, 2, 2) \in MARKS

\* ord(s[0])
Ord(s) ==
    IF AccentedHead(s)
    THEN Len(CODEPOINTS)
         + (CHOOSE i \in 1..Len(ACCENTED) : ACCENTED[i] = SubSeq(s, 1, 2))
    ELSE CHOOSE i \in 1..Len(CODEPOINTS) : SubSeq(CODEPOINTS, i, i) = Head(s)

\* s[1:]
Rest(s) == IF AccentedHead(s) THEN SubSeq(s, 3, Len(s)) ELSE Tail(s)

RECURSIVE StrLess(_, _)
\* a < b of two str: by code point, character after character
StrLess(a, b) ==
    IF b = "" THEN FALSE
    ELSE IF a = "" THEN TRUE
    ELSE IF Ord(a) = Ord(b) THEN StrLess(Rest(a), Rest(b))
    ELSE Ord(a) < Ord(b)

RECURSIVE Sorted(_)
\* sorted(set_of_str)
Sorted(S) ==
    IF S = {} THEN <<>>
    ELSE <<CHOOSE x \in S : \A y \in S : x = y \/ StrLess(x, y)>>
         \o Sorted(S \ {CHOOSE x \in S : \A y \in S : x = y \/ StrLess(x, y)})

\* unique_addrs[:50]
First50(q) == SubSeq(q, 1, IF Len(q) < 50 THEN Len(q) ELSE 50)

\* lines 284-288 and 315-319: multi, the addresses of the candidates
MultiText(ter, mask) ==
    Join(First50(Sorted({concat_address(ter[i], DOMAIN ter[i]) : i \in mask} \ {""})),
         " | ")

\* df.at[idx, col] = v for every col of PRICE_COLS
MarkRow(row, v) == [c \in DOMAIN row |-> IF c \in PriceColSet THEN v ELSE row[c]]

\* the candidate's value goes into every address cell, empty or not
FillEmpty_Overwriting(row, rec) ==
    [c \in DOMAIN row |->
        IF c \in AddrColSet /\ c \in DOMAIN rec THEN rec[c] ELSE row[c]]

\* lines 277-282 and 307-313: the cells of the address columns that are
\* empty take the candidate's value (Ulica only if the registry has it)
FillEmpty(row, rec) ==
    [c \in DOMAIN row |->
        IF c \in AddrColSet /\ c \in DOMAIN rec /\ norm_val(row[c]) = ""
        THEN rec[c] ELSE row[c]]

\* candidates.iloc[0]
FirstOf(mask) == CHOOSE i \in mask : \A j \in mask : i <= j

\* lines 277-293 and 307-324: one candidate, several, none
Settle(row, ter, mask) ==
    [row    |-> IF Cardinality(mask) = 1 THEN FillEmpty(row, ter[FirstOf(mask)])
                ELSE IF Cardinality(mask) > 1
                     THEN MarkRow(row, IF MultiText(ter, mask) # ""
                                       THEN MultiText(ter, mask) ELSE "brak adresu")
                ELSE MarkRow(row, "brak adresu"),
     lookup |-> TRUE,
     mask   |-> mask,
     ncand  |-> Cardinality(mask)]

\* a row the loop body leaves without a lookup
NoLookup(row) == [row |-> row, lookup |-> FALSE, mask |-> {}, ncand |-> 0]

\* lines 268-275 and 298-305: cols_for_matching, then build_mask
Match(row, ter, probe) ==
    IF {c \in DOMAIN probe : norm_val(probe[c]) # ""} = {}
    THEN NoLookup(MarkRow(row, "brak adresu"))
    ELSE Settle(row, ter,
                build_mask(ter, probe, {c \in DOMAIN probe : norm_val(probe[c]) # ""}))

\* line 267: probe of the branch filled_count == 2
Probe2(row) == [c \in FieldSet |-> row[c]]

\* line 297: probe of the branch filled_count >= 3
Probe3(row, ter) ==
    [c \in FieldSet \cup (IF teryt_has_ulica(ter) THEN {"Ulica"} ELSE {}) |-> row[c]]

\* line 259
filled_count(row) == Cardinality({c \in AddrColSet : norm_val(row[c]) # ""})

\* lines 253-325, the body of "for idx, row in df.iterrows()": a row
\* without Nr KW is passed over; filled_count 0, 2 and >= 3 have a branch
\* each, and a row of any other filled_count falls out of the body as it is
LoopBody(row, ter) ==
    IF norm_val(row[COL_NR_KW]) = "" THEN NoLookup(row)
    ELSE IF filled_count(row) = 0 THEN NoLookup(MarkRow(row, "brak adresu"))
    ELSE IF filled_count(row) = 2 THEN Match(row, ter, Probe2(row))
    ELSE IF filled_count(row) >= 3 THEN Match(row, ter, Probe3(row, ter))
    ELSE NoLookup(row)

(***************************************************************************)
(* Specification SpecBatch: a run of popraw_adres main over an input       *)
(* sheet.  The sheets are read and the names fixed (Load), the loop goes   *)
(* through the rows one at a time (ProcessRow), and the sheet is written   *)
(* (Save).  The loop body stands in no try block: an exception raised in   *)
(* it leaves main (RowRaises) and nothing is written.                      *)
(***************************************************************************)
\* rows of the input sheet
MaxBatch == 2

\* the rows an input sheet is made of
InputRows ==
    { InRow(NaN,      NaN, NaN, NaN, NaN, NaN, NaN),
      InRow("none",   NaN, NaN, NaN, "Katowice", NaN, NaN),
      InRow("WA1M/1", NaN, NaN, NaN, NaN, NaN, NaN),
      InRow("WA1M/1", NaN, NaN, NaN, NaN, NaN, "ul. Lipowa"),
      InRow("WA1M/1", NaN, NaN, NaN, "Wadowice", NaN, NaN),
      InRow("WA1M/1", NaN, NaN, NaN, "katowice", NaN, "ul. Lipowa"),
      InRow("WA1M/1", NaN, NaN, "Z^yrardo'w", " Z^yrardo'w", NaN, NaN),
      InRow("WA1M/1", "slaskie", NaN, NaN, "katowice", "srodmiescie", NaN),
      InRow("WA1M/1", "mazowieckie", NaN, NaN, "Nigdzie", NaN, NaN),
      InRow("WA1M/1", "Mazowieckie", NaN, NaN, "Zyrardow", NaN, NaN),
      InRow("WA1M/1", "MAZOWIECKIE", NaN, NaN, "z^yrardo'w", NaN, NaN),
      InRow("WA1M/1", "slaskie", NaN, NaN, "katowice", NaN, "Lipowa") }

InputSheets == UNION {[1..n -> InputRows] : n \in 0..MaxBatch}

InitBatch ==
    /\ BatchIdle
    /\ OthersIdle("batch")

\* lines 210-249: both sheets are read, fix_name goes over the address
\* columns of the input
Load(sheet, with_ulica) ==
    /\ run = "idle"
    /\ df' = FixNames(sheet)
    /\ teryt' = TerytFrame(with_ulica)
    /\ idx' = 1
    /\ run' = "loop"
    /\ UNCHANGED <<trail, saved, exc, processed, notBatch>>

\* ensure_columns(df, required, context), lines 93-99: the columns the
\* ValueError names as missing (<<>>: nothing is raised)
ensure_columns(columns, required) == MissingOf(required, columns)

\* lines 210-225: the sheets are read, the input has its columns, and
\* ensure_columns raises ValueError for the TERYT sheet; main ends there
LoadNoSchema(sheet, cells) ==
    /\ run = "idle"
    /\ ensure_columns(cells, base_teryt_cols) # <<>>
    /\ df' = sheet
    /\ run' = "schema_error"
    /\ exc' = [absent |-> FieldSet \ cells,
               named  |-> ensure_columns(cells, base_teryt_cols)]
    /\ UNCHANGED <<teryt, idx, trail, saved, processed, notBatch>>

\* one pass of the loop body
ProcessRow ==
    /\ run = "loop"
    /\ idx <= Len(df)
    /\ df' = [df EXCEPT ![idx] = LoopBody(df[idx], teryt).row]
    /\ trail' = Append(trail, [before |-> df[idx],
                               after  |-> LoopBody(df[idx], teryt).row,
                               lookup |-> LoopBody(df[idx], teryt).lookup,
                               mask   |-> LoopBody(df[idx], teryt).mask,
                               ncand  |-> LoopBody(df[idx], teryt).ncand])
    /\ idx' = idx + 1
    /\ processed' = IF norm_val(df[idx][COL_NR_KW]) = "" THEN processed ELSE processed + 1
    /\ UNCHANGED <<teryt, run, saved, exc, notBatch>>

\* an exception is raised in the loop body, past the test of Nr KW: no
\* handler encloses the body, so it leaves main and ends the process
RowRaises ==
    /\ run = "loop"
    /\ idx <= Len(df)
    /\ norm_val(df[idx][COL_NR_KW]) # ""
    /\ run' = "raised"
    /\ UNCHANGED <<df, teryt, idx, trail, saved, exc, processed, notBatch>>

\* lines 327-335: the loop is over, df is written, main returns 0
Save ==
    /\ run = "loop"
    /\ idx > Len(df)
    /\ saved' = df
    /\ run' = "done"
    /\ UNCHANGED <<df, teryt, idx, trail, exc, processed, notBatch>>

\* lines 330-332: writing fails, main returns 2
SaveFails ==
    /\ run = "loop"
    /\ idx > Len(df)
    /\ run' = "failed"
    /\ UNCHANGED <<df, teryt, idx, trail, saved, exc, processed, notBatch>>

NextBatch ==
    \/ \E sheet \in InputSheets : \E with_ulica \in BOOLEAN : Load(sheet, with_ulica)
    \/ \E sheet \in InputSheets : \E cells \in HeaderRows : LoadNoSchema(sheet, cells)
    \/ ProcessRow
    \/ RowRaises
    \/ Save
    \/ SaveFails

SpecBatch == InitBatch /\ [][NextBatch]_vars

\* the five administrative cells of a row are all empty
AdminEmpty(row) == \A c \in FieldSet : norm_val(row[c]) = ""

\* the three statistics cells of a row hold "brak adresu"
Flagged(row) == \A c \in PriceColSet : row[c] = "brak adresu"

\* the rows the loop has been through that have a Nr KW
Passed == {i \in 1..Len(trail) : norm_val(trail[i].before[COL_NR_KW]) # ""}

(***************************************************************************)
(* C8.  Every row the loop has been through whose five administrative      *)
(* cells are all empty has "brak adresu" in its statistics cells and was   *)
(* not looked up in the registry.  It is stated for the rows that have a   *)
(* Nr KW; the loop passes over the others before it looks at the address.  *)
(* Violated: filled_count counts Ulica too, so a row with a street and no  *)
(* administrative cell has filled_count 1, for which the body has no       *)
(* branch: the row is not looked up (that half holds) and not flagged.     *)
(***************************************************************************)
C8_NoAdminFieldsFlagged ==
    \A i \in Passed :
        AdminEmpty(trail[i].before)
            => Flagged(trail[i].after) /\ ~trail[i].lookup

(***************************************************************************)
(* C9.  No row with a Nr KW and at least one administrative cell filled    *)
(* goes through the loop without a lookup and without any cell written.    *)
(* Violated: a row with exactly one address cell filled has filled_count   *)
(* 1; the body has branches for 0, 2 and >= 3 only.                        *)
(***************************************************************************)
C9_AdminRowLookedUpOrMarked ==
    \A i \in Passed :
        ~AdminEmpty(trail[i].before)
            => trail[i].lookup \/ trail[i].after # trail[i].before

Range(q) == {q[i] : i \in 1..Len(q)}

(***************************************************************************)
(* C11.  When load_teryt fails for a sheet that lacks required headers,    *)
(* no row has been processed and the error names every header the sheet    *)
(* lacks.                                                                  *)
(* Violated: the loop of load_teryt raises at the first required column    *)
(* that is no header, so of several that are absent only the first is      *)
(* named.  ensure_columns of popraw_adres collects them all before it      *)
(* raises (EnsureColumnsNamesEveryMissing holds in SpecBatch).             *)
(***************************************************************************)
C11_ErrorNamesEveryMissing ==
    dialog # NoError => Range(dialog.named) = dialog.absent /\ last = <<>>

\* popraw_adres: a run ended by the schema error of the TERYT sheet names
\* every absent column and has touched no row
EnsureColumnsNamesEveryMissing ==
    run = "schema_error"
        => /\ Range(exc.named) = exc.absent
           /\ exc.absent # {}
           /\ trail = <<>> /\ saved = <<>>

\* line 334: the counts the closing print of main reports,
\* "Przetworzono wierszy z Nr KW: {processed}"
Summary == <<processed>>

RECURSIVE SumSeq(_)
SumSeq(q) == IF q = <<>> THEN 0 ELSE Head(q) + SumSeq(Tail(q))

(***************************************************************************)
(* C12.  After a run of the batch the counts its summary reports add up    *)
(* to the number of rows of the input sheet.                               *)
(* Violated: main reports one count, the rows that have a Nr KW; it keeps  *)
(* no count of the rows resolved, partly resolved, unresolved or skipped,  *)
(* and a row without Nr KW is in no count at all.                          *)
(***************************************************************************)
C12_SummaryAccountsForEveryRow ==
    run = "done" => SumSeq(Summary) = Len(df)

\* the probe the loop body built for a row: line 267 or line 297
ProbeOf(row, ter) == IF filled_count(row) = 2 THEN Probe2(row) ELSE Probe3(row, ter)

\* the registry rows equal to the probe in every cell of the probe that is
\* not empty, two cells being equal when their norm_key is: the equality of
\* filter_candidates, blind to case, to the spaces around, to a prefix
\* "wojewodztwo" and to diacritics
KeyMatches(ter, probe) ==
    {j \in 1..Len(ter) :
        \A c \in DOMAIN probe :
            norm_val(probe[c]) # ""
                => norm_key(IF ter[j][c] = NaN THEN "" ELSE ter[j][c]) = norm_key(probe[c])}

(***************************************************************************)
(* C13.  The registry rows a lookup of the batch returns are exactly the   *)
(* rows that equal the probe, under canonical-key equality, in every cell  *)
(* of the probe that is not empty.                                         *)
(* Violated: build_mask compares norm_val texts, which fold case and       *)
(* collapse spaces but keep diacritics, so "Zyrardow" does not find the    *)
(* registry row of "Z^yrardo'w".  filter_candidates of testy0703 compares  *)
(* norm_key texts and does find it.                                        *)
(***************************************************************************)
C13_LookupIsCanonicalKeyMatch ==
    \A i \in Passed :
        trail[i].lookup
            => trail[i].mask = KeyMatches(teryt, ProbeOf(trail[i].before, teryt))

(***************************************************************************)
(* Specification SpecQuery: a registry is queried with a set of filters    *)
(* (Ask), then with filters got from the last ones by emptying some of     *)
(* them (Relax).  Each query is made with filter_candidates of testy0703   *)
(* and with build_mask of popraw_adres.                                    *)
(***************************************************************************)
\* queries made one after the other
MaxAsked == 2

\* the registries queried: the first rows of TERYT_ROWS
Registries == {SubSeq(TERYT_ROWS, 1, n) : n \in 0..Len(TERYT_ROWS)}

\* the filters of a first query
Filters ==
    [Wojewodztwo : {"", "katowickie"}, Powiat : {"", "Wadowicki"},
     Gmina : {"", "Wadowice"}, Miejscowosc : {"", "zyrardow", "Katowice"},
     Dzielnica : {"", "miasto"}]

\* a registry as pd.read_excel gives it: an empty cell is NaN
FrameOf(rows) ==
    [i \in 1..Len(rows) |->
        [c \in FieldSet |-> IF rows[i][c] = "" THEN NaN ELSE rows[i][c]]]

\* one query of a registry, by both matchers
Asked(rows, f) ==
    [rows    |-> rows,
     filters |-> f,
     cands   |-> filter_candidates(rows, f.Wojewodztwo, f.Powiat, f.Gmina,
                                   f.Miejscowosc, f.Dzielnica),
     mask    |-> build_mask(FrameOf(rows), f, {c \in FieldSet : norm_val(f[c]) # ""})]

InitQuery ==
    /\ asked = <<>>
    /\ OthersIdle("query")

\* a first query
Ask(rows, f) ==
    /\ asked = <<>>
    /\ asked' = <<Asked(rows, f)>>
    /\ UNCHANGED notQuery

\* the filters of emptied are set to "" and the same registry is queried
Relax(emptied) ==
    /\ Len(asked) >= 1
    /\ Len(asked) < MaxAsked
    /\ emptied # {}
    /\ \A c \in emptied : Last(asked).filters[c] # ""
    /\ asked' = Append(asked,
                       Asked(Last(asked).rows,
                             [c \in FieldSet |-> IF c \in emptied THEN ""
                                                 ELSE Last(asked).filters[c]]))
    /\ UNCHANGED notQuery

NextQuery ==
    \/ \E rows \in Registries : \E f \in Filters : Ask(rows, f)
    \/ \E emptied \in SUBSET FieldSet : Relax(emptied)

SpecQuery == InitQuery /\ [][NextQuery]_vars

(***************************************************************************)
(* C14.  A query relaxed from another by emptying filters returns every    *)
(* record the other returned, and so at least as many: for                 *)
(* filter_candidates and for build_mask alike.                             *)
(***************************************************************************)
C14_RelaxedReturnsSuperset ==
    \A i \in 1..Len(asked) : \A j \in i..Len(asked) :
        /\ Range(asked[i].cands) \subseteq Range(asked[j].cands)
        /\ Len(asked[i].cands) <= Len(asked[j].cands)
        /\ asked[i].mask \subseteq asked[j].mask

\* a relaxed query returned records the full one had, and more
C14_Witness ==
    /\ Len(asked) >= 2
    /\ asked[1].cands # <<>> /\ Len(asked[2].cands) > Len(asked[1].cands)
    /\ asked[1].mask # {} /\ Cardinality(asked[2].mask) > Cardinality(asked[1].mask)

(***************************************************************************)
(* Specification SpecVoiv: a province name is given (TypeName) and         *)
(* map_old_voiv is called on it, then on its own result (MapOld).          *)
(***************************************************************************)
\* calls of map_old_voiv, each on the result of the one before
MaxMaps == 2

\* adres_otodom.py, lines 38-42: the sixteen provinces
VOIVODESHIPS ==
    <<"Dolnos'la;skie", "Kujawsko-Pomorskie", "Lubelskie", "Lubuskie",
      "L~o'dzkie", "Mal~opolskie", "Mazowieckie", "Opolskie", "Podkarpackie",
      "Podlaskie", "Pomorskie", "S'la;skie", "S'wie;tokrzyskie",
      "Warmin'sko-Mazurskie", "Wielkopolskie", "Zachodniopomorskie">>

\* the keys of OLD_TO_NEW_VOIV_RAW as they are written in the table
LegacyNames == {kv[1] : kv \in OLD_TO_NEW_VOIV_RAW}

\* the names given: those of the table, some of them written another way,
\* a province of today, and "pilskie", a name the table does not hold
TypedNames ==
    LegacyNames \cup {"Katowickie", " woj. katowickie", "wojewo'dztwo Bielskie",
                      "lodzkie", "mazowieckie", "pilskie"}

InitVoiv ==
    /\ voiv = <<>>
    /\ OthersIdle("voiv")

TypeName(name) ==
    /\ voiv = <<>>
    /\ voiv' = <<name>>
    /\ UNCHANGED notVoiv

\* map_old_voiv(name) on the last name
MapOld ==
    /\ Len(voiv) >= 1
    /\ Len(voiv) <= MaxMaps
    /\ voiv' = Append(voiv, map_old_voiv(Last(voiv)))
    /\ UNCHANGED notVoiv

NextVoiv ==
    \/ \E name \in TypedNames : TypeName(name)
    \/ MapOld

SpecVoiv == InitVoiv /\ [][NextVoiv]_vars

\* the sixteen provinces in the lower case map_old_voiv returns
CurrentNames == {Lower(VOIVODESHIPS[i]) : i \in 1..Len(VOIVODESHIPS)}

(***************************************************************************)
(* C15.  The table of legacy names has 49 entries; map_old_voiv takes each *)
(* of them to one of the sixteen provinces, and a second call changes      *)
(* nothing.                                                                *)
(* Violated: OLD_TO_NEW_VOIV_RAW has 44 entries.  Each of the 44 is taken  *)
(* to one of the sixteen provinces and stays there (LegacyTableClosed).    *)
(***************************************************************************)
C15_TableOf49Closed ==
    (Len(voiv) >= 3 /\ voiv[1] \in LegacyNames)
        => /\ Cardinality(LegacyNames) = 49
           /\ voiv[2] \in CurrentNames
           /\ voiv[3] = voiv[2]

\* every name of the table is taken to one of the sixteen provinces, and
\* a second call of map_old_voiv changes nothing
LegacyTableClosed ==
    (Len(voiv) >= 3 /\ voiv[1] \in LegacyNames)
        => voiv[2] \in CurrentNames /\ voiv[3] = voiv[2]

(***************************************************************************)
(* build_kw_prefix_map.py: fill_from_teryt                                 *)
(***************************************************************************)
\* clean_text(s), lines 78-87, on texts without the special spaces
clean_text(s) == Strip(CollapseSpaces(s))

\* norm_key(s) of build_kw_prefix_map, lines 89-90
kw_norm_key(s) == Translate_DIAC_MAP(Lower(clean_text(s)))

\* a registry as load_teryt_df gives it, in which the locality Nowa Wies'
\* lies in four municipalities of three counties and two provinces
KW_TERYT ==
    << Rec("Mazowieckie",  "pruszkowski",  "Michal~owice", "Nowa Wies'", ""),
       Rec("Mal~opolskie", "krakowski",    "Skal~a",       "Nowa Wies'", ""),
       Rec("Mazowieckie",  "kozienicki",   "Magnuszew",    "Nowa Wies'", ""),
       Rec("Mazowieckie",  "pruszkowski",  "Brwino'w",     "Nowa Wies'", ""),
       Rec("Mazowieckie",  "z^yrardowski", "Z^yrardo'w",   "Z^yrardo'w", "") >>

RECURSIVE Keep(_, _, _)
\* d[d[field].map(norm_key) == norm_key(hint)]
Keep(d, field, hint) ==
    IF d = <<>> THEN <<>>
    ELSE IF kw_norm_key(Head(d)[field]) = kw_norm_key(hint)
         THEN <<Head(d)>> \o Keep(Tail(d), field, hint)
         ELSE Keep(Tail(d), field, hint)

\* pick_unique, lines 223-237, one "if <hint>:" block.  st.d is d and
\* st.done tells that pick_unique has returned st.d[1]; d2 is d narrowed
\* to the records that equal the hint
NarrowBy(st, field, hint, d2) ==
    IF st.done \/ hint = "" THEN st
    ELSE IF Len(d2) = 1 THEN [done |-> TRUE, d |-> d2]
    ELSE IF d2 # <<>> THEN [done |-> FALSE, d |-> d2]
    ELSE st

\* one hint applied to what the hints before it left
Narrowed(st, field, hint) == NarrowBy(st, field, hint, Keep(st.d, field, hint))

\* a < b of two records in the order of sort_values(["Wojewodztwo",
\* "Powiat", "Gmina", "Miejscowosc"])
RowLess(a, b) ==
    \/ StrLess(a.Wojewodztwo, b.Wojewodztwo)
    \/ /\ a.Wojewodztwo = b.Wojewodztwo
       /\ \/ StrLess(a.Powiat, b.Powiat)
          \/ /\ a.Powiat = b.Powiat
             /\ \/ StrLess(a.Gmina, b.Gmina)
                \/ /\ a.Gmina = b.Gmina
                   /\ StrLess(a.Miejscowosc, b.Miejscowosc)

\* line 238: d.sort_values([...]).iloc[0]
SortedFirst(d) ==
    CHOOSE r \in Range(d) : \A q \in Range(d) : ~RowLess(q, r)

\* pick_unique(sub), lines 220-238
pick_unique(sub, pow_hint, gmi_hint, woj_hint) ==
    Narrowed(Narrowed(Narrowed([done |-> Len(sub) = 1, d |-> sub],
                               "Powiat", pow_hint),
                      "Gmina", gmi_hint),
             "Wojewodztwo", woj_hint)

RECURSIVE LocalityRows(_, _)
\* line 216: teryt_df[teryt_df["Miejscowosc"].str.lower() == miejsc.lower()]
LocalityRows(rows, miejsc) ==
    IF rows = <<>> THEN <<>>
    ELSE IF Lower(Head(rows).Miejscowosc) = Lower(miejsc)
         THEN <<Head(rows)>> \o LocalityRows(Tail(rows), miejsc)
         ELSE LocalityRows(Tail(rows), miejsc)

\* the dict fill_from_teryt returns
Canon(w, p, g, m) == [Wojewodztwo |-> w, Powiat |-> p, Gmina |-> g, Miejscowosc |-> m]

\* lines 240-244: the dict made of the record picked
CanonOf(picked) ==
    IF picked.done
    THEN Canon(picked.d[1].Wojewodztwo, picked.d[1].Powiat,
               picked.d[1].Gmina, picked.d[1].Miejscowosc)
    ELSE Canon(SortedFirst(picked.d).Wojewodztwo, SortedFirst(picked.d).Powiat,
               SortedFirst(picked.d).Gmina, SortedFirst(picked.d).Miejscowosc)

\* the outcome of fill_from_teryt from the rows of the locality
FillFromSub(sub, miejsc, pow_hint, gmi_hint, woj_hint) ==
    [miejsc |-> miejsc,
     hints  |-> [Powiat |-> pow_hint, Gmina |-> gmi_hint, Wojewodztwo |-> woj_hint],
     sub    |-> sub,
     canon  |-> IF sub = <<>> THEN Canon("", "", "", miejsc)
                ELSE CanonOf(pick_unique(sub, pow_hint, gmi_hint, woj_hint))]

\* fill_from_teryt(miejsc, teryt_df, pow_hint, gmi_hint, woj_hint),
\* lines 210-244
fill_from_teryt(miejsc, teryt_df, pow_hint, gmi_hint, woj_hint) ==
    FillFromSub(IF teryt_df = <<>> \/ miejsc = "" THEN <<>>
                ELSE LocalityRows(teryt_df, miejsc),
                miejsc, pow_hint, gmi_hint, woj_hint)

(***************************************************************************)
(* Specification SpecHint: fill_from_teryt is called, as enrich_from_teryt *)
(* calls it, with a locality and the three hints of a row.                 *)
(***************************************************************************)
\* the registries: TERYT.xlsx loaded, or no TERYT at all
HintRegistries == {KW_TERYT, <<>>}

\* the localities and the hints of a row
HintInputs ==
    [miejsc : {"", "nowa wies'", "Nowa Wies'", "Z^yrardo'w", "Nigdzie"},
     pow    : {"", "pruszkowski", "Krakowski", "wadowicki"},
     gmi    : {"", "brwinow", "Magnuszew"},
     woj    : {"", "mazowieckie", "S'la;skie"}]

InitHint ==
    /\ filled = <<>>
    /\ OthersIdle("hint")

FillFromTeryt(teryt_df, in) ==
    /\ filled = <<>>
    /\ filled' = fill_from_teryt(in.miejsc, teryt_df, in.pow, in.gmi, in.woj)
    /\ UNCHANGED notHint

\* the next row of enrich_from_teryt
NextRow ==
    /\ filled # <<>>
    /\ filled' = <<>>
    /\ UNCHANGED notHint

NextHint ==
    \/ \E teryt_df \in HintRegistries : \E in \in HintInputs : FillFromTeryt(teryt_df, in)
    \/ NextRow

SpecHint == InitHint /\ [][NextHint]_vars

HintFields == {"Powiat", "Gmina", "Wojewodztwo"}

\* the hint of a field is given
Hinted(f) == filled.hints[f] # ""

\* a record equals the hint of a field, in the equality of pick_unique
EqualsHint(r, f) == kw_norm_key(r[f]) = kw_norm_key(filled.hints[f])

\* a record equals every hint that is given
EqualsHints(r) == \A f \in HintFields : Hinted(f) => EqualsHint(r, f)

\* several registry records match the locality
SeveralMatch == filled # <<>> /\ Len(filled.sub) > 1

(***************************************************************************)
(* C16 as claimed.  When several registry records match the locality, the  *)
(* record used for filling equals every hint that is given.                *)
(* Violated: a hint that no candidate left equals is ignored, so with the  *)
(* county hint "wadowicki" a record of another county is used; and once    *)
(* one candidate is left the hints after it are not looked at.             *)
(***************************************************************************)
C16_UsedEqualsEveryHint == SeveralMatch => EqualsHints(filled.canon)

\* what does hold: when several registry records match the locality, the
\* record used is one of them; it equals every hint given whenever one of
\* them does, and it equals the county hint whenever one of them does
UsedEqualsHintsACandidateEquals ==
    SeveralMatch =>
        /\ \E r \in Range(filled.sub) :
              filled.canon = Canon(r.Wojewodztwo, r.Powiat, r.Gmina, r.Miejscowosc)
        /\ (\E r \in Range(filled.sub) : EqualsHints(r)) => EqualsHints(filled.canon)
        /\ (Hinted("Powiat") /\ \E r \in Range(filled.sub) : EqualsHint(r, "Powiat"))
              => EqualsHint(filled.canon, "Powiat")

\* hints were given that some of the candidates equal and others do not
NarrowedByHints ==
    /\ SeveralMatch
    /\ \E f \in HintFields : Hinted(f)
    /\ \E r \in Range(filled.sub) : EqualsHints(r)
    /\ \E r \in Range(filled.sub) : ~EqualsHints(r)
    /\ EqualsHints(filled.canon)

(***************************************************************************)
(* adres_otodom.py: the address parser.  None is Python's None; a text is  *)
(* a string.  The regular expressions are computed character by character *)
(* as the re module matches them; a mark of the encoding belongs to the    *)
(* letter before it, so it is a word character wherever a letter is one.   *)
(***************************************************************************)
None == "<None>"

\* bool(v) of a value that is None or a text
Truthy(v) == v # None /\ v # ""

\* (v or "")
OrEmpty(v) == IF v = None THEN "" ELSE v

Letters == {SubSeq(UPPER, i, i) : i \in 1..Len(UPPER)} \cup {SubSeq(LOWER, i, i) : i \in 1..Len(LOWER)}

Digits == {"0", "1", "2", "3", "4", "5", "6", "7", "8", "9"}

\* \w
IsWordChar(c) == c \in Letters \/ c \in Digits \/ c = "_" \/ c \in MARKS

\* [A-Za-zACELNOSZZacelnoszz \-] (the Polish letters spelt out in the source)
IsNameChar(c) == c \in Letters \/ c \in MARKS \/ c = " " \/ c = "-"

\* [\wACELNOSZZacelnoszz\.\- ]
IsStreetChar(c) == IsWordChar(c) \/ c = "." \/ c = "-" \/ c = " "

\* s[n:]
Drop(s, n) == SubSeq(s, n + 1, Len(s))

RECURSIVE Remove(_, _)
\* s.replace(sub, "")
Remove(s, sub) ==
    IF s = "" THEN ""
    ELSE IF StartsWith(s, sub) THEN Remove(Drop(s, Len(sub)), sub)
         ELSE Head(s) \o Remove(Tail(s), sub)

RECURSIVE SplitAt(_, _, _)
\* s.split(sep) for a one-character sep; cur is the piece being read
SplitAt(s, sep, cur) ==
    IF s = "" THEN <<cur>>
    ELSE IF Head(s) = sep THEN <<cur>> \o SplitAt(Tail(s), sep, "")
         ELSE SplitAt(Tail(s), sep, cur \o Head(s))

\* VOIVODESHIPS_LOWER.get(s), line 43
VOIVODESHIPS_LOWER_get(s) ==
    IF \E i \in 1..Len(VOIVODESHIPS) : Lower(VOIVODESHIPS[i]) = s
    THEN VOIVODESHIPS[CHOOSE i \in 1..Len(VOIVODESHIPS) : Lower(VOIVODESHIPS[i]) = s]
    ELSE None

\* VOIVODESHIP_BY_CITY, lines 45-52
VOIVODESHIP_BY_CITY ==
    {<<"Warszawa", "Mazowieckie">>, <<"Krako'w", "Mal~opolskie">>, <<"L~o'dz'", "L~o'dzkie">>,
     <<"Wrocl~aw", "Dolnos'la;skie">>, <<"Poznan'", "Wielkopolskie">>, <<"Gdan'sk", "Pomorskie">>,
     <<"Gdynia", "Pomorskie">>, <<"Sopot", "Pomorskie">>, <<"Szczecin", "Zachodniopomorskie">>,
     <<"Bydgoszcz", "Kujawsko-Pomorskie">>, <<"Torun'", "Kujawsko-Pomorskie">>,
     <<"Lublin", "Lubelskie">>, <<"Bial~ystok", "Podlaskie">>, <<"Katowice", "S'la;skie">>,
     <<"Kielce", "S'wie;tokrzyskie">>, <<"Rzeszo'w", "Podkarpackie">>,
     <<"Olsztyn", "Warmin'sko-Mazurskie">>, <<"Opole", "Opolskie">>,
     <<"Zielona Go'ra", "Lubuskie">>, <<"Gorzo'w Wielkopolski", "Lubuskie">>,
     <<"Radom", "Mazowieckie">>, <<"Cze;stochowa", "S'la;skie">>}

\* city in VOIVODESHIP_BY_CITY
InVoivByCity(city) == \E kv \in VOIVODESHIP_BY_CITY : kv[1] = city

\* VOIVODESHIP_BY_CITY[city]
VoivByCity(city) == (CHOOSE kv \in VOIVODESHIP_BY_CITY : kv[1] = city)[2]

\* _is_voivodeship(seg), lines 67-71
is_voivodeship(seg) ==
    IF ~Truthy(seg) THEN None
    ELSE VOIVODESHIPS_LOWER_get(
             Strip(Remove(Remove(Lower(Czysc(seg)), "wojewo'dztwo"), "woj.")))

RECURSIVE UpToSeparator(_)
\* the text before the first "," or "/"
UpToSeparator(s) ==
    IF s = "" \/ Head(s) \in {",", "/"} THEN ""
    ELSE Head(s) \o UpToSeparator(Tail(s))

\* _tylko_dzielnica(txt), lines 80-83: the first piece of
\* re.split(r'\s*[,/]\s*', txt.strip(), maxsplit=1)
tylko_dzielnica(txt) ==
    IF ~Truthy(txt) THEN "" ELSE RStrip(UpToSeparator(Strip(txt)))

\* the optional (miejska|wiejska|miejsko-wiejska) of _clean_gmina's prefix
CutGminaKind(n) ==
    IF StartsWith(Lower(n), "miejska") THEN Drop(n, 7)
    ELSE IF StartsWith(Lower(n), "wiejska") THEN Drop(n, 7)
    ELSE IF StartsWith(Lower(n), "miejsko-wiejska") THEN Drop(n, 15)
    ELSE n

\* _clean_gmina(name), lines 73-78
clean_gmina(name) ==
    IF ~Truthy(name) THEN name
    ELSE LET n == Strip(name)
         IN  IF StartsWith(Lower(n), "gmina")
             THEN Czysc(LStrip(CutGminaKind(LStrip(Drop(n, 5)))))
             ELSE IF StartsWith(Lower(n), "gm.")
                  THEN Czysc(LStrip(CutGminaKind(LStrip(Drop(n, 3)))))
                  ELSE Czysc(n)

RECURSIVE WordsOf(_, _)
\* the maximal runs of word characters of s (cur is the run being read)
WordsOf(s, cur) ==
    IF s = "" THEN (IF cur = "" THEN {} ELSE {cur})
    ELSE IF IsWordChar(Head(s)) THEN WordsOf(Tail(s), cur \o Head(s))
         ELSE (IF cur = "" THEN {} ELSE {cur}) \cup WordsOf(Tail(s), "")

\* the keywords of the pattern of line 138
KEYWORDS ==
    {"ul", "ulica", "al", "aleja", "aleje", "pl", "plac", "os", "osiedle",
     "gmina", "powiat", "polska"}

\* re.search(r'\b(ul\.?|ulica|...|gmina|powiat|Polska)\b', seg, re.I): the
\* pattern matches exactly when a whole word of seg is one of the keywords
HasKeyword(seg) == \E w \in WordsOf(seg, "") : Lower(w) \in KEYWORDS

RECURSIVE UpToComma(_)
\* the text before the first ","
UpToComma(s) == IF s = "" \/ Head(s) = "," THEN "" ELSE Head(s) \o UpToComma(Tail(s))

RECURSIVE AllChars(_, _)
\* every character of s is of the class told by kind
AllChars(s, kind) ==
    \/ s = ""
    \/ /\ IF kind = "name" THEN IsNameChar(Head(s))
          ELSE IF kind = "street" THEN IsStreetChar(Head(s))
          ELSE Head(s) \in Digits
       /\ AllChars(Tail(s), kind)

\* \s*([name characters]+?)(?=,|$) matched at the head of rest: the cleaned
\* group, or None when the pattern does not match there.  The group runs
\* to the comma; when only whitespace stands before the comma the group is
\* the last space of it.
LabelGroup(rest) ==
    LET seg  == UpToComma(rest)
        body == LStrip(seg)
    IN  IF body # "" THEN (IF AllChars(body, "name") THEN Czysc(body) ELSE None)
        ELSE IF seg # "" /\ SubSeq(seg, Len(seg), Len(seg)) = " " THEN "" ELSE None

\* what follows the label, with the optional part of the label's pattern
\* taken: the "." of woj\.? and the (?:m\.\s*st\.\s*)? of gmina
AfterLabel(label, rest) ==
    IF label = "woj" THEN (IF StartsWith(rest, ".") THEN Tail(rest) ELSE rest)
    ELSE IF label = "gmina"
         THEN LET r1 == LStrip(rest)
                  r2 == LStrip(Drop(r1, 2))
              IN  IF StartsWith(Lower(r1), "m.") /\ StartsWith(Lower(r2), "st.")
                  THEN Drop(r2, 3) ELSE rest
         ELSE rest

\* the label's pattern matched at position i of t
LabelAt(t, i, label) ==
    LET rest == Drop(t, i + Len(label) - 1)
        a    == LabelGroup(AfterLabel(label, rest))
    IN  IF a # None THEN a ELSE LabelGroup(rest)

RECURSIVE Labelled(_, _, _, _)
\* re.search of a labelled pattern (lines 102, 107, 110) from position i
\* on: the cleaned group of the leftmost match, None without a match.  lt is
\* t lowered (re.I).  The alternative "wojewodztwo" of line 102 never
\* matches where "woj" has failed, both running to the same comma.
Labelled(t, lt, i, label) ==
    IF i + Len(label) - 1 > Len(t) THEN None
    ELSE IF SubSeq(lt, i, i + Len(label) - 1) = label /\ LabelAt(t, i, label) # None
         THEN LabelAt(t, i, label)
         ELSE Labelled(t, lt, i + 1, label)

\* \d+[A-Za-z]?
IsNum(s) ==
    /\ s # ""
    /\ Head(s) \in Digits
    /\ \/ AllChars(s, "digit")
       \/ /\ SubSeq(s, Len(s), Len(s)) \in Letters
          /\ AllChars(SubSeq(s, 1, Len(s) - 1), "digit")

\* \s+(\d+[A-Za-z]?(?:/\d+[A-Za-z]?)?) matching the whole of rem
IsNumPart(rem) ==
    /\ rem # "" /\ IsSpace(Head(rem))
    /\ LET body == LStrip(rem)
           ab   == SplitAt(body, "/", "")
       IN  \/ IsNum(body)
           \/ Len(ab) = 2 /\ IsNum(ab[1]) /\ IsNum(ab[2])

\* the lengths the lazy name group can have in seg: the rest of seg is then
\* empty or a building number
NameLens(seg) ==
    {n \in 2..Len(seg) :
        /\ AllChars(SubSeq(seg, 1, n), "street")
        /\ Drop(seg, n) = "" \/ IsNumPart(Drop(seg, n))}

\* the prefixes of the four street patterns, lines 114-119, in the order
\* the alternatives are tried; the first of each may carry a "."
STREET_PREFIXES ==
    <<<<"ul", "ulica">>, <<"al", "aleja", "aleje">>, <<"pl", "plac">>, <<"os", "osiedle">>>>

\* the text after a prefix of pattern k that stands at position i of t and
\* is followed by whitespace, as a set (empty when no prefix stands there)
AfterPrefix(t, lt, i, k) ==
    {rest \in {Drop(t, i - 1 + Len(STREET_PREFIXES[k][a])
                      + (IF a = 1 /\ i + 2 <= Len(t) /\ SubSeq(t, i + 2, i + 2) = "."
                         THEN 1 ELSE 0)) :
               a \in {b \in 1..Len(STREET_PREFIXES[k]) :
                        /\ i - 1 + Len(STREET_PREFIXES[k][b]) <= Len(t)
                        /\ SubSeq(lt, i, i - 1 + Len(STREET_PREFIXES[k][b]))
                             = STREET_PREFIXES[k][b]}} :
        rest # "" /\ IsSpace(Head(rest))}

\* the name and number of pattern k matched at position i, as a set
StreetAt(t, lt, i, k) ==
    {[typ |-> STREET_PREFIXES[k][1],
      nazwa |-> Czysc(SubSeq(seg, 1, n)),
      nr |-> IF Drop(seg, n) = "" THEN None ELSE LStrip(Drop(seg, n))] :
        <<seg, n>> \in
            {sn \in UNION {{<<UpToComma(LStrip(rest)), m>> :
                                m \in NameLens(UpToComma(LStrip(rest)))} :
                            rest \in AfterPrefix(t, lt, i, k)} :
                /\ sn[1] # "" /\ (Head(sn[1]) \in Letters \/ Head(sn[1]) \in Digits)
                /\ \A m \in NameLens(sn[1]) : sn[2] <= m}}

\* no street pattern has matched
NoStreet == [typ |-> None, nazwa |-> None, nr |-> None]

RECURSIVE StreetSearch(_, _, _, _)
\* re.search(street_patterns[k], t, re.I) from position i on: the leftmost
\* match, NoStreet without one
StreetSearch(t, lt, i, k) ==
    IF i > Len(t) THEN NoStreet
    ELSE IF StreetAt(t, lt, i, k) # {}
         THEN CHOOSE s \in StreetAt(t, lt, i, k) : TRUE
         ELSE StreetSearch(t, lt, i + 1, k)

RECURSIVE FirstStreet(_, _, _)
\* for p in street_patterns: ... break, lines 120-127
FirstStreet(t, lt, k) ==
    IF k > Len(STREET_PREFIXES) THEN NoStreet
    ELSE IF StreetSearch(t, lt, 1, k) # NoStreet THEN StreetSearch(t, lt, 1, k)
         ELSE FirstStreet(t, lt, k + 1)

\* the value a subscript out of range stands for: Python raises IndexError
IndexError == "<IndexError>"

\* q[-k]
FromEnd(q, k) == IF Len(q) >= k THEN q[Len(q) - k + 1] ELSE IndexError

\* len(loc_clean) >= k with the guard dropped: the subscript is always taken
HasAtLeast_Unguarded(q, k) == TRUE

\* len(loc_clean) >= k, lines 144 and 146
HasAtLeast(q, k) == Len(q) >= k

\* the result before anything is read from the text, lines 92-96
EmptyOut(tekst) ==
    [ulica_typ |-> None, ulica_nazwa |-> None, nr |-> None, poddzielnica |-> None,
     dzielnica |-> None, miasto |-> None, gmina |-> None, powiat |-> None,
     wojewodztwo |-> None, oryginal |-> OrEmpty(tekst)]

\* x.strip() is not empty
NonBlank(x) == Strip(x) # ""

\* parts = [_czysc(x) for x in t.split(',') if x.strip()], line 130
Parts(t) ==
    LET kept == SelectSeq(SplitAt(t, ",", ""), NonBlank)
    IN  [i \in 1..Len(kept) |-> Czysc(kept[i])]

RECURSIVE Sift(_, _, _, _)
\* the loop of lines 133-139 from segment i on: a segment that names a
\* province sets the province when none is set yet; any other segment
\* without a keyword is kept
Sift(parts, i, woj, loc) ==
    IF i > Len(parts) THEN [wojewodztwo |-> woj, loc_clean |-> loc]
    ELSE IF Truthy(is_voivodeship(parts[i])) /\ ~Truthy(woj)
         THEN Sift(parts, i + 1, is_voivodeship(parts[i]), loc)
         ELSE IF ~HasKeyword(parts[i])
              THEN Sift(parts, i + 1, woj, Append(loc, parts[i]))
              ELSE Sift(parts, i + 1, woj, loc)

\* lines 102-105: the labelled province
LabelledVoiv(t, lt) ==
    LET w == Labelled(t, lt, 1, "woj")
    IN  IF w = None THEN None
        ELSE IF VOIVODESHIPS_LOWER_get(Lower(w)) # None
             THEN VOIVODESHIPS_LOWER_get(Lower(w)) ELSE w

\* lines 98-127: the labelled fields and the street
Extracted(tekst, t, lt, street) ==
    [EmptyOut(tekst) EXCEPT !.wojewodztwo = LabelledVoiv(t, lt),
                            !.powiat = Labelled(t, lt, 1, "powiat"),
                            !.gmina = Labelled(t, lt, 1, "gmina"),
                            !.ulica_typ = street.typ,
                            !.ulica_nazwa = street.nazwa,
                            !.nr = street.nr]

\* lines 142-147: city, district and sub-district from the segments kept
Positional(out, loc) ==
    IF loc = <<>> THEN out
    ELSE [out EXCEPT !.miasto = FromEnd(loc, 1),
                     !.dzielnica = IF HasAtLeast(loc, 2)
                                   THEN tylko_dzielnica(FromEnd(loc, 2)) ELSE @,
                     !.poddzielnica = IF HasAtLeast(loc, 3)
                                      THEN tylko_dzielnica(FromEnd(loc, 3)) ELSE @]

\* dz in VOIVODESHIP_BY_CITY or dz in CITY_COUNTY
KnownCity(dz) == InVoivByCity(dz) \/ dz \in CITY_COUNTY

\* lines 150-153 with the test left out: nothing is ever swapped
SwapCorrection_Never(out) == out

\* lines 150-153: the swap of city and district
SwapCorrection(out) ==
    IF Truthy(out.miasto) /\ Truthy(out.dzielnica) /\ KnownCity(Czysc(out.dzielnica))
    THEN [out EXCEPT !.miasto = Czysc(out.dzielnica),
                     !.dzielnica = tylko_dzielnica(out.miasto)]
    ELSE out

\* lines 155-161: the province of a known city, and the districts cut
Finish(out) ==
    [out EXCEPT !.wojewodztwo = IF ~Truthy(@) /\ InVoivByCity(out.miasto)
                                THEN VoivByCity(out.miasto) ELSE @,
                !.dzielnica = IF Truthy(@) THEN tylko_dzielnica(@) ELSE @,
                !.poddzielnica = IF Truthy(@) THEN tylko_dzielnica(@) ELSE @]

\* what the parser returns, with what it went through: the segments, the
\* segments kept, the guess before the swap, and whether a subscript was
\* out of range (the call then raises and returns nothing)
ParseResult(parts, loc, guess) ==
    [parts     |-> parts,
     loc_clean |-> loc,
     guess     |-> guess,
     out       |-> Finish(SwapCorrection(guess)),
     raised    |-> IndexError \in {guess.dzielnica, guess.poddzielnica}]

\* lines 133-147, given the segments, what the loop made of them, and what
\* lines 98-127 have read
ParseFrom(parts, sifted, out0) ==
    ParseResult(parts, sifted.loc_clean,
                Positional([out0 EXCEPT !.wojewodztwo = sifted.wojewodztwo],
                           sifted.loc_clean))

\* lines 130-163 on the padded text t
ParseText(parts, out0) == ParseFrom(parts, Sift(parts, 1, out0.wojewodztwo, <<>>), out0)

\* lines 99-163 on the padded text t and its lowered form lt
ParsePadded(tekst, t, lt) ==
    ParseText(Parts(t), Extracted(tekst, t, lt, FirstStreet(t, lt, 1)))

\* not tekst
IsEmptyText(tekst) == ~Truthy(tekst)

\* parsuj_adres_string(tekst), lines 86-163
parsuj_adres_string(tekst) ==
    IF IsEmptyText(tekst)
    THEN [parts |-> <<>>, loc_clean |-> <<>>, guess |-> EmptyOut(tekst),
          out |-> EmptyOut(tekst), raised |-> FALSE]
    ELSE ParsePadded(tekst, " " \o tekst \o " ", Lower(" " \o tekst \o " "))

(***************************************************************************)
(* adres_otodom.py and scraper_otodom_mieszkania.py: what the scraper does *)
(* with the parser's result before it writes the row of an offer.          *)
(***************************************************************************)
\* _consistency_pass_row(row) on a dict whose values may be None and that
\* may lack the key "miejscowosc" (then None here): the keys the pass
\* assigns are written, the others stay as they are
ConsistencyOn(ad, view, passed) ==
    [ad EXCEPT !.miejscowosc = IF passed.miejscowosc # view.miejscowosc
                               THEN passed.miejscowosc ELSE @,
               !.powiat = IF passed.powiat # view.powiat THEN passed.powiat ELSE @,
               !.gmina = IF passed.gmina # view.gmina THEN passed.gmina ELSE @]

\* row.get("miejscowosc"), row.get("powiat"), row.get("gmina") as _czysc
\* takes them
ViewOf(ad) ==
    [miejscowosc |-> OrEmpty(ad.miejscowosc), powiat |-> OrEmpty(ad.powiat),
     gmina |-> OrEmpty(ad.gmina)]

\* the pass left out
consistency_pass_row_Skipped(ad) == ad

consistency_pass_row(ad) == ConsistencyOn(ad, ViewOf(ad), ConsistencyPassRow(ViewOf(ad)))

\* ad = dict(ad or {}) of the parser's result: the key "miejscowosc" is not
\* there yet
AsDict(out) ==
    [ulica_typ |-> out.ulica_typ, ulica_nazwa |-> out.ulica_nazwa, nr |-> out.nr,
     poddzielnica |-> out.poddzielnica, dzielnica |-> out.dzielnica, miasto |-> out.miasto,
     gmina |-> out.gmina, powiat |-> out.powiat, wojewodztwo |-> out.wojewodztwo,
     oryginal |-> out.oryginal, miejscowosc |-> None]

\* lines 171-172: the city taken from the district when there is none
CityFromDistrict(ad) ==
    IF Czysc(OrEmpty(ad.miasto)) = "" /\ Czysc(OrEmpty(ad.dzielnica)) # ""
    THEN [ad EXCEPT !.miasto = Czysc(ad.dzielnica)] ELSE ad

\* lines 175-184: the province of a known city, and the names tidied
Tidied(ad) ==
    [ad EXCEPT !.wojewodztwo = IF Czysc(OrEmpty(@)) = "" /\ InVoivByCity(Czysc(OrEmpty(ad.miasto)))
                               THEN VoivByCity(Czysc(OrEmpty(ad.miasto))) ELSE @,
               !.gmina = IF Truthy(@) THEN clean_gmina(@) ELSE @,
               !.dzielnica = IF Truthy(@) THEN tylko_dzielnica(@) ELSE @,
               !.poddzielnica = IF Truthy(@) THEN tylko_dzielnica(@) ELSE @]

\* uzupelnij_braki_z_heurystyk(ad), lines 166-187 (uzupelnij_braki_z_nominatim
\* is its alias)
uzupelnij_braki_z_heurystyk(ad) == consistency_pass_row(Tidied(CityFromDistrict(ad)))

\* lines 195-199: county and municipality of a city with county rights,
\* where they are empty
FillCityCounty(ad, msc) ==
    IF msc \in CITY_COUNTY
    THEN [ad EXCEPT !.powiat = IF Czysc(OrEmpty(@)) = "" THEN msc ELSE @,
                    !.gmina = IF Czysc(OrEmpty(@)) = "" THEN msc ELSE @]
    ELSE ad

\* dopelnij_powiat_gmina_jesli_brak(ad), lines 189-201
dopelnij_powiat_gmina_jesli_brak(ad) ==
    IF Czysc(OrEmpty(ad.miasto)) = "" THEN ad
    ELSE consistency_pass_row(FillCityCounty(ad, Czysc(OrEmpty(ad.miasto))))

\* _safe_enrich_address(adr), scraper lines 149-162: neither call reaches
\* the network, so the first try returns
safe_enrich_address(adr) ==
    dopelnij_powiat_gmina_jesli_brak(uzupelnij_braki_z_heurystyk(AsDict(adr)))

RECURSIVE PyLen(_)
\* len(s): a letter and its mark are one character
PyLen(s) == IF s = "" THEN 0 ELSE (IF Head(s) \in MARKS THEN 0 ELSE 1) + PyLen(Tail(s))

\* _norm_txt(s), scraper lines 135-136 (the texts hold no no-break space)
norm_txt(s) == Czysc(OrEmpty(s))

RECURSIVE JoinComma(_)
\* ", ".join(parts)
JoinComma(parts) ==
    IF parts = <<>> THEN ""
    ELSE IF Len(parts) = 1 THEN parts[1]
    ELSE parts[1] \o ", " \o JoinComma(Tail(parts))

\* the address of a page's JSON-LD whose keys are all missing; a page
\* without a JSON-LD address is read the same way
NoAddr == [street |-> None, locality |-> None, region |-> None, country |-> None]

\* _address_from_jsonld(soup), scraper lines 178-202, of a page whose
\* JSON-LD holds the address addr
address_from_jsonld(addr) ==
    JoinComma(SelectSeq(<<norm_txt(addr.street),
                          norm_txt(IF Truthy(addr.locality) THEN addr.locality
                                   ELSE addr.region),
                          OrEmpty(addr.country)>>, Truthy))

\* scraper lines 347-350: the text of the map link, or the JSON-LD address
\* when that is longer
AdresString(ui, addr) ==
    IF address_from_jsonld(addr) # "" /\ PyLen(address_from_jsonld(addr)) > PyLen(ui)
    THEN address_from_jsonld(addr) ELSE ui

RECURSIVE CutAtNumber(_)
\* re.sub(r"\s+\d.*$", "", street)
CutAtNumber(s) ==
    IF s = "" THEN ""
    ELSE IF IsSpace(Head(s)) /\ LStrip(s) # "" /\ Head(LStrip(s)) \in Digits THEN ""
         ELSE Head(s) \o CutAtNumber(Tail(s))

\* scraper lines 358-377: the street of the JSON-LD address when the parser
\* found none
StreetFallback(adr, addr) ==
    IF Strip(OrEmpty(adr.ulica_nazwa)) = "" /\ Truthy(addr.street)
    THEN [adr EXCEPT !.ulica_nazwa = IF Strip(CutAtNumber(addr.street)) # ""
                                     THEN Strip(CutAtNumber(addr.street))
                                     ELSE Strip(addr.street)]
    ELSE adr

\* scraper lines 379-406: the address columns of the row, after the last
\* consistency pass
RowOf(adr) ==
    consistency_pass_row(
        [wojewodztwo |-> OrEmpty(adr.wojewodztwo), powiat |-> OrEmpty(adr.powiat),
         gmina |-> OrEmpty(clean_gmina(adr.gmina)), miejscowosc |-> OrEmpty(adr.miasto),
         dzielnica |-> OrEmpty(adr.dzielnica), ulica |-> OrEmpty(adr.ulica_nazwa)])

\* the row that is not there: the call has raised
NoRow ==
    [wojewodztwo |-> None, powiat |-> None, gmina |-> None, miejscowosc |-> None,
     dzielnica |-> None, ulica |-> None]

\* pobierz_dane_z_otodom(url), scraper lines 289-407, from the address text
\* on: the parser's run and the row
pobierz_dane_z_otodom(tekst, addr, res) ==
    [call |-> "pobierz", tekst |-> tekst, addr |-> addr, res |-> res,
     row |-> IF res.raised THEN NoRow
             ELSE RowOf(StreetFallback(safe_enrich_address(res.out), addr))]

(***************************************************************************)
(* Specification SpecParse: the parser called on a text, and the scraper   *)
(* reading the address of a page, one call after the other.                *)
(***************************************************************************)
\* the first segments of the texts: streets with and without a prefix, one
\* whose name begins like the label "powiat" and one that holds "gmina"
StreetSegments ==
    {"ul. Marszal~kowska 12", "Marszal~kowska 12", "ul. Powiatowa", "ul. Gmina Targowa"}

\* the second segments: districts, one named "Osiedle ...", one written
\* with a slash, a province and a city
DistrictSegments ==
    {"S'ro'dmies'cie", "Osiedle Tysia;clecia", "Praga/Pol~udnie", "mazowieckie", "Radom"}

\* the last segments: cities with county rights (the last missing in
\* VOIVODESHIP_BY_CITY), and a town without them
CitySegments == {"Warszawa", "Katowice", "Jelenia Go'ra", "Wadowice"}

\* the texts "<street>, <district>, <city>"
ShapedTexts ==
    {s \o ", " \o d \o ", " \o c :
        s \in StreetSegments, d \in DistrictSegments, c \in CitySegments}

\* texts of other shapes, the empty one among them
OtherTexts ==
    {"", " , ,", "Wola", "Radom, Warszawa", "Warszawa, Praga/Pol~udnie",
     "Warszawa, woj. mazowieckie", "Wadowice, wojewo'dztwo mal~opolskie",
     "Wola, Warszawa, Mazowieckie, Polska", "Kabaty, Ursyno'w, Warszawa",
     "Piaseczno, powiat piaseczyn'ski, mazowieckie", "gmina m. st. Warszawa, Wola",
     "os. Kopernika 3, Ruda S'la;ska", "Wola / Miro'w, Warszawa"}

ParseTexts == ShapedTexts \cup OtherTexts

\* the JSON-LD addresses of the pages
PageAddrs ==
    {NoAddr,
     [street |-> "Prosta 7", locality |-> None, region |-> None, country |-> None],
     [street |-> "Prosta 7", locality |-> "Warszawa", region |-> None, country |-> "PL"]}

InitParse ==
    /\ parsed = <<>>
    /\ OthersIdle("parse")

\* parsuj_adres_string(tekst) called on its own
ParsujAdres(tekst) ==
    /\ parsed = <<>>
    /\ parsed' = [call |-> "parsuj", tekst |-> tekst, addr |-> NoAddr,
                  res |-> parsuj_adres_string(tekst), row |-> NoRow]
    /\ UNCHANGED notParse

\* pobierz_dane_z_otodom(url) on a page whose map link reads ui and whose
\* JSON-LD holds the address addr
PobierzDane(ui, addr) ==
    /\ parsed = <<>>
    /\ parsed' = pobierz_dane_z_otodom(AdresString(ui, addr), addr,
                                       parsuj_adres_string(AdresString(ui, addr)))
    /\ UNCHANGED notParse

\* the next link of przetworz_linki_do_csv
NextLink ==
    /\ parsed # <<>>
    /\ parsed' = <<>>
    /\ UNCHANGED notParse

NextParse ==
    \/ \E tekst \in ParseTexts \cup {None} : ParsujAdres(tekst)
    \/ \E ui \in ParseTexts : \E addr \in PageAddrs : PobierzDane(ui, addr)
    \/ NextLink

SpecParse == InitParse /\ [][NextParse]_vars

\* the scraper has read the address of a page
Fetched == parsed # <<>> /\ parsed.call = "pobierz"

\* the comma segments of the address text, stripped
TextSegments ==
    [i \in 1..Len(SplitAt(parsed.tekst, ",", "")) |-> Strip(SplitAt(parsed.tekst, ",", "")[i])]

\* the address text reads "<street segment>, <district D>, <city C>", C a
\* city with county rights and D not a known city
ShapedLikeStreetDistrictCity ==
    /\ Fetched
    /\ Len(TextSegments) = 3
    /\ \A i \in 1..3 : TextSegments[i] # ""
    /\ TextSegments[3] \in CITY_COUNTY
    /\ ~KnownCity(TextSegments[2])

\* locality, county and municipality of the row are the city C
RowIsCity ==
    /\ parsed.row.miejscowosc = TextSegments[3]
    /\ parsed.row.powiat = TextSegments[3]
    /\ parsed.row.gmina = TextSegments[3]

Parsed == parsed # <<>> /\ Truthy(parsed.tekst)

\* a segment that neither names a province nor holds a keyword
IsPlace(seg) == is_voivodeship(seg) = None /\ ~HasKeyword(seg)

\* the segments left when those that name a province or hold a keyword are
\* discarded
Remaining == SelectSeq(parsed.res.parts, IsPlace)

\* the guess before the swap is read off the sequence q of segments: the
\* last is the city, the one before it (cut by _tylko_dzielnica) the
\* district, the one before that the sub-district; a field without its
\* segment is empty
GuessReadOff(q) ==
    /\ IF Len(q) >= 1 THEN parsed.res.guess.miasto = q[Len(q)]
       ELSE ~Truthy(parsed.res.guess.miasto)
    /\ IF Len(q) >= 2 THEN parsed.res.guess.dzielnica = tylko_dzielnica(q[Len(q) - 1])
       ELSE ~Truthy(parsed.res.guess.dzielnica)
    /\ IF Len(q) >= 3 THEN parsed.res.guess.poddzielnica = tylko_dzielnica(q[Len(q) - 2])
       ELSE ~Truthy(parsed.res.guess.poddzielnica)

(***************************************************************************)
(* C18: once the segments that name a province or hold a street or         *)
(* administrative keyword are discarded, the parser (before the swap)      *)
(* takes the last remaining segment as city, the second-to-last as         *)
(* district and the third-to-last as sub-district, and leaves empty the    *)
(* fields for which no segment remains.                                    *)
(* Violated: a segment that names a province is discarded only while no    *)
(* province is set; after a "woj. ..." label or an earlier province        *)
(* segment it stays and is taken as city or district.                      *)
(***************************************************************************)
C18_GuessFromRemainingSegments == Parsed => GuessReadOff(Remaining)

\* what does hold: the guess is read off the segments the loop of lines
\* 133-139 has kept
GuessFromKeptSegments == Parsed => GuessReadOff(parsed.res.loc_clean)

\* a province segment was kept, and the guess has it as its city
ProvinceKeptAsCity ==
    /\ Parsed
    /\ Len(parsed.res.loc_clean) > Len(Remaining)
    /\ is_voivodeship(parsed.res.guess.miasto) # None

(***************************************************************************)
(* C19 as stated: when the guessed district is a known city (in            *)
(* CITY_COUNTY or in VOIVODESHIP_BY_CITY) the result has it as city and    *)
(* the guessed city as district; otherwise city and district are as        *)
(* guessed.                                                                *)
(* Violated: the guessed city is cut at its first "/" when it becomes the  *)
(* district ("Warszawa, Praga/Poludnie" gives the district "Praga").       *)
(***************************************************************************)
C19_SwapPutsGuessedCityAsDistrict ==
    Parsed =>
        IF KnownCity(parsed.res.guess.dzielnica)
        THEN /\ parsed.res.out.miasto = parsed.res.guess.dzielnica
             /\ parsed.res.out.dzielnica = parsed.res.guess.miasto
        ELSE /\ parsed.res.out.miasto = parsed.res.guess.miasto
             /\ parsed.res.out.dzielnica = parsed.res.guess.dzielnica

(***************************************************************************)
(* C19 as the code has it: when the guessed district is a known city the   *)
(* result has it as city and, as district, the guessed city up to its      *)
(* first "/"; otherwise city and district are as guessed.                  *)
(***************************************************************************)
C19_SwapPutsCutCityAsDistrict ==
    Parsed =>
        IF KnownCity(parsed.res.guess.dzielnica)
        THEN /\ parsed.res.out.miasto = parsed.res.guess.dzielnica
             /\ parsed.res.out.dzielnica = tylko_dzielnica(parsed.res.guess.miasto)
        ELSE /\ parsed.res.out.miasto = parsed.res.guess.miasto
             /\ parsed.res.out.dzielnica = parsed.res.guess.dzielnica

\* a guess whose district is a known city and whose city is another text
\* has been swapped
C19_Witness ==
    /\ Parsed
    /\ KnownCity(parsed.res.guess.dzielnica)
    /\ parsed.res.guess.miasto # parsed.res.guess.dzielnica
    /\ parsed.res.out.miasto = parsed.res.guess.dzielnica
    /\ parsed.res.out.dzielnica = tylko_dzielnica(parsed.res.guess.miasto)

\* the parser was called on an empty text
ParsedEmpty == parsed # <<>> /\ ~Truthy(parsed.tekst)

\* the fields of the guess other than the original text
GuessFields ==
    {"ulica_typ", "ulica_nazwa", "nr", "poddzielnica", "dzielnica", "miasto", "gmina",
     "powiat", "wojewodztwo"}

(***************************************************************************)
(* C20 as stated: parsuj_adres_string never raises, and for an empty text  *)
(* every field of the guess it returns is the empty string.                *)
(* Violated: for an empty text the fields are None, only the original text *)
(* is the empty string.                                                    *)
(***************************************************************************)
C20_NeverRaisesEmptyGivesEmptyStrings ==
    parsed # <<>> =>
        /\ ~parsed.res.raised
        /\ ParsedEmpty =>
               /\ \A f \in GuessFields : parsed.res.out[f] = ""
               /\ parsed.res.out.oryginal = ""

(***************************************************************************)
(* C20 as the code has it: parsuj_adres_string never raises, and for an    *)
(* empty text (None or "") it returns a guess whose original text is the   *)
(* empty string and whose every other field is None.                       *)
(***************************************************************************)
C20_NeverRaisesEmptyGivesNone ==
    parsed # <<>> =>
        /\ ~parsed.res.raised
        /\ ParsedEmpty =>
               /\ \A f \in GuessFields : parsed.res.out[f] = None
               /\ parsed.res.out.oryginal = ""

\* the parser has returned from a call on the empty text
C20_Witness ==
    /\ parsed # <<>>
    /\ parsed.tekst = ""
    /\ ~parsed.res.raised
    /\ parsed.res.out = EmptyOut("")

(***************************************************************************)
(* EXCELoperacje.py: the sheets 'raport' and 'raport_odfiltrowane'.        *)
(* A sheet is its header (cols) and its data rows; a row is a function     *)
(* from the sheet's column names to cell values, NaN for an empty cell.    *)
(* A workbook holds the two sheets; there = FALSE says the sheet is not    *)
(* in wb.sheetnames.                                                       *)
(***************************************************************************)

\* KOL_UDZIALY, line 19
KOL_UDZIALY == "Czy udzial~y ?"

\* KOL_LOKAL, line 20
KOL_LOKAL == "Przeznaczenie (dla lokalu)"

\* the first of RAPORT_COLS, line 23
KOL_KW == "Nr KW"

\* a column a user added to the filtered sheet
KOL_UWAGI == "Uwagi"

NoSheet == [there |-> FALSE, cols |-> <<>>, rows |-> <<>>]

Sheet(cols, rows) == [there |-> TRUE, cols |-> cols, rows |-> rows]

RECURSIVE StripCombining(_)
\* unicodedata.normalize("NFD", s) without the characters of category Mn:
\* the acute, the ogonek and the dot go, the stroke of l~ is no combining
\* mark and stays
StripCombining(s) ==
    IF s = "" THEN ""
    ELSE IF Head(s) \in {"'", ";", "^"}
         THEN StripCombining(Tail(s))
         ELSE Head(s) \o StripCombining(Tail(s))

RECURSIVE WithoutPunct(_)
\* re.sub(r"[ \t\r\n\.\-\_\?\(\)]", "", s)
WithoutPunct(s) ==
    IF s = "" THEN ""
    ELSE IF Head(s) \in {" ", "\t", ".", "-", "_", "?", "(", ")"}
         THEN WithoutPunct(Tail(s))
         ELSE Head(s) \o WithoutPunct(Tail(s))

\* _norm_text, lines 208-220
norm_text(s) ==
    IF s = None THEN ""
    ELSE WithoutPunct(Casefold(StripCombining(Strip(s))))

\* target in n, of two str
IsIn(target, n) ==
    \E i \in 1..(Len(n) + 1) :
        i + Len(target) - 1 <= Len(n) /\ SubSeq(n, i, i + Len(target) - 1) = target

\* str(x) of a cell: a missing value prints as "nan"
StrOf(x) == IF x = NaN THEN "nan" ELSE x

\* the strings pandas.read_excel reads as missing by default (na_values,
\* keep_default_na=True), those a cell of these sheets may hold
NA_VALUES == {"", "n/a", "NA", "nan", "None", "null"}

\* a row with no value in any of its cells
IsBlankRow(row) == \A c \in DOMAIN row : row[c] = NaN

RECURSIVE TrimBlankTail(_)
\* the reader drops the empty rows after the last row with data
TrimBlankTail(rows) ==
    IF rows = <<>> THEN <<>>
    ELSE IF IsBlankRow(rows[Len(rows)])
         THEN TrimBlankTail(SubSeq(rows, 1, Len(rows) - 1))
         ELSE rows

\* _read_sheet_df, lines 257-258: pd.read_excel(file_path, sheet_name=sheet)
read_sheet_df(sh) ==
    LET kept == TrimBlankTail(sh.rows)
    IN  [columns |-> sh.cols,
         rows |-> [i \in 1..Len(kept) |->
                     [c \in DOMAIN kept[i] |->
                        IF kept[i][c] \in NA_VALUES THEN NaN ELSE kept[i][c]]]]

\* _write_sheet_df, lines 261-263: the sheet is replaced by the frame, a
\* missing value is written as an empty cell
write_sheet_df(frame) == Sheet(frame.columns, frame.rows)

\* [h for h in headers if h not in cur]
MissingHeaders(headers, cur) == SelectSeq(headers, LAMBDA h : h \notin Range(cur))

\* a row seen over the column set cs: NaN where it has no such column
RowOver(row, cs) == [c \in cs |-> IF c \in DOMAIN row THEN row[c] ELSE NaN]

RowsOver(rows, cs) == [i \in 1..Len(rows) |-> RowOver(rows[i], cs)]

\* ensure_raport_odfiltrowane, lines 223-254: the workbook it saves, and
\* whether it raises ValueError
ensure_raport_odfiltrowane(wb) ==
    IF ~wb.raport.there
    THEN [wb |-> wb, raised |-> TRUE]
    ELSE IF ~wb.odf.there
    THEN [wb |-> [wb EXCEPT !.odf = Sheet(wb.raport.cols, <<>>)], raised |-> FALSE]
    ELSE LET cols == wb.odf.cols \o MissingHeaders(wb.raport.cols, wb.odf.cols)
         IN  [wb |-> [wb EXCEPT !.odf = Sheet(cols, RowsOver(wb.odf.rows, Range(cols)))],
              raised |-> FALSE]

RECURSIVE col(_, _)
\* _col, lines 319-325: the first column whose normalised name is, or
\* holds, the normalised wanted name
col(columns, wanted) ==
    IF columns = <<>> THEN None
    ELSE IF norm_text(Head(columns)) = norm_text(wanted)
            \/ IsIn(norm_text(wanted), norm_text(Head(columns)))
         THEN Head(columns)
         ELSE col(Tail(columns), wanted)

\* mask_jeden, lines 327 and 330-333: astype("string").fillna("") makes a
\* missing cell the empty text
mask_jeden(df_r, i) ==
    LET col_ud == col(df_r.columns, KOL_UDZIALY)
    IN  IF col_ud = None THEN FALSE
        ELSE Casefold(Strip(IF df_r.rows[i][col_ud] = NaN THEN ""
                            ELSE df_r.rows[i][col_ud])) = "tak"

\* _is_lokal_mieszkalny, lines 335-336
is_lokal_mieszkalny(x) == norm_text(StrOf(x)) = "lokalmieszkalny"

\* mask_lokal, lines 328 and 338-340
mask_lokal(df_r, i) ==
    LET col_lok == col(df_r.columns, KOL_LOKAL)
    IN  IF col_lok = None THEN FALSE
        ELSE ~is_lokal_mieszkalny(df_r.rows[i][col_lok])

\* to_move, lines 342-347
to_move(df_r, mode, i) ==
    CASE mode = "jeden" -> mask_jeden(df_r, i)
      [] mode = "lokal" -> mask_lokal(df_r, i)
      [] OTHER -> mask_jeden(df_r, i) \/ mask_lokal(df_r, i)

\* df[mask]: the rows of the frame at the indexes in keep, in order
RowsAt(rows, keep) ==
    LET F[i \in 0..Len(rows)] ==
            IF i = 0 THEN <<>>
            ELSE IF i \in keep THEN Append(F[i - 1], rows[i]) ELSE F[i - 1]
    IN  F[Len(rows)]

NoStats == [moved_to_odf |-> 0, returned_to_raport |-> 0]

\* mode 'cofnij', lines 286-310
cofnij(wb) ==
    LET df_r == read_sheet_df(wb.raport)
        odf0 == read_sheet_df(wb.odf)
        some == {i \in 1..Len(odf0.rows) : ~IsBlankRow(odf0.rows[i])}
        df_odf == RowsAt(odf0.rows, some)
        returned == Len(df_odf)
        df_r2 == IF returned > 0
                 THEN [columns |-> df_r.columns,
                       rows |-> df_r.rows \o RowsOver(df_odf, Range(df_r.columns))]
                 ELSE df_r
    IN  [wb |-> [raport |-> write_sheet_df(df_r2),
                 odf |-> write_sheet_df([columns |-> df_r2.columns, rows |-> <<>>])],
         stats |-> [moved_to_odf |-> 0, returned_to_raport |-> returned],
         raised |-> FALSE]

\* modes 'jeden', 'lokal', 'oba', lines 312-317 and 351-369
przenies(wb, mode) ==
    LET df_r == read_sheet_df(wb.raport)
        odf0 == read_sheet_df(wb.odf)
        moving == {i \in 1..Len(df_r.rows) : to_move(df_r, mode, i)}
        df_move == RowsAt(df_r.rows, moving)
        moved == Len(df_move)
        odf_cols == odf0.columns \o MissingHeaders(df_r.columns, odf0.columns)
        df_odf2 == [columns |-> odf_cols,
                    rows |-> RowsOver(odf0.rows, Range(odf_cols))
                             \o RowsOver(df_move, Range(odf_cols))]
        df_keep == [columns |-> df_r.columns,
                    rows |-> RowsAt(df_r.rows, (1..Len(df_r.rows)) \ moving)]
    IN  IF moved = 0
        THEN [wb |-> wb, stats |-> NoStats, raised |-> FALSE]
        ELSE [wb |-> [raport |-> write_sheet_df(df_keep),
                      odf |-> write_sheet_df(df_odf2)],
              stats |-> [moved_to_odf |-> moved, returned_to_raport |-> 0],
              raised |-> FALSE]

\* filter_raport_move_to_odf, lines 266-369: the workbook it leaves, the
\* statistics it returns and whether it raises ValueError
filter_raport_move_to_odf(wb, mode) ==
    LET ens == ensure_raport_odfiltrowane(wb)
    IN  IF ens.raised THEN [wb |-> wb, stats |-> NoStats, raised |-> TRUE]
        ELSE IF mode = "brak" THEN [wb |-> ens.wb, stats |-> NoStats, raised |-> FALSE]
        ELSE IF mode = "cofnij" THEN cofnij(ens.wb)
        ELSE IF mode \in {"jeden", "lokal", "oba"} THEN przenies(ens.wb, mode)
        ELSE [wb |-> ens.wb, stats |-> NoStats, raised |-> TRUE]

(***************************************************************************)
(* SpecBook: calls of filter_raport_move_to_odf on one workbook.           *)
(***************************************************************************)

\* the header of 'raport' in the workbooks of the model
RAPORT_HEADER == <<KOL_KW, KOL_LOKAL, KOL_UDZIALY>>

MkRow(kw, lokal, udzialy) ==
    (KOL_KW :> kw) @@ (KOL_LOKAL :> lokal) @@ (KOL_UDZIALY :> udzialy)

RowFlat == MkRow("K1", "LOKAL MIESZKALNY", "nie")
RowGarage == MkRow("K2", "GARAZ^", "tak")
RowShared == MkRow("K3", "Lokal mieszkalny", "Tak ")
RowNoUse == MkRow("K4", "n/a", NaN)
RowBlank == MkRow(NaN, NaN, NaN)

\* the data rows 'raport' starts with
RaportRows ==
    {<<>>, <<RowFlat>>, <<RowGarage>>, <<RowFlat, RowGarage>>,
     <<RowGarage, RowFlat>>, <<RowShared, RowFlat>>, <<RowFlat, RowNoUse>>,
     <<RowFlat, RowBlank, RowGarage>>, <<RowGarage, RowGarage>>,
     <<RowShared, RowBlank>>}

\* the sheet 'raport_odfiltrowane' the workbook starts with: none, one with
\* the header only, one with rows of an earlier filtering, one with a blank
\* row, one whose header has a column more, one whose header lacks a column
OdfSheets ==
    {NoSheet,
     Sheet(RAPORT_HEADER, <<>>),
     Sheet(RAPORT_HEADER, <<MkRow("K5", "GARAZ^", "nie")>>),
     Sheet(RAPORT_HEADER, <<RowBlank, MkRow("K5", "GARAZ^", "nie")>>),
     Sheet(RAPORT_HEADER \o <<KOL_UWAGI>>,
           <<MkRow("K6", "STRYCH", "nie") @@ (KOL_UWAGI :> "do sprawdzenia")>>),
     Sheet(<<KOL_KW, KOL_LOKAL>>,
           <<(KOL_KW :> "K7") @@ (KOL_LOKAL :> "GARAZ^")>>)}

Workbooks ==
    {[raport |-> Sheet(RAPORT_HEADER, rows), odf |-> o] :
        rows \in RaportRows, o \in OdfSheets}
    \cup {[raport |-> NoSheet, odf |-> NoSheet]}

\* the modes a caller passes: the five of the docstring and one that is none
Modes == {"brak", "jeden", "lokal", "oba", "cofnij", "wszystko"}

MaxCalls == 2

InitBook ==
    /\ \E wb \in Workbooks : book = [wb |-> wb, first |-> wb, calls |-> <<>>]
    /\ OthersIdle("book")

\* one call filter_raport_move_to_odf(file_path, mode)
Filter(mode) ==
    /\ book # <<>>
    /\ Len(book.calls) < MaxCalls
    /\ LET out == filter_raport_move_to_odf(book.wb, mode)
       IN  book' = [book EXCEPT
                      !.wb = out.wb,
                      !.calls = Append(@, [mode |-> mode, before |-> book.wb,
                                           after |-> out.wb, stats |-> out.stats,
                                           raised |-> out.raised])]
    /\ UNCHANGED notBook

NextBook == \E mode \in Modes : Filter(mode)

SpecBook == InitBook /\ [][NextBook]_vars

\* the calls made so far
Calls == IF book = <<>> THEN {} ELSE Range(book.calls)

\* what a row holds: its cells with a value, each under its column name
Content(row) == {<<c, row[c]>> : c \in {d \in DOMAIN row : row[d] # NaN}}

\* the data rows of a sheet, in order: the rows with a value in some cell
DataRows(sh) ==
    LET some == {i \in 1..Len(sh.rows) : ~IsBlankRow(sh.rows[i])}
        rows == RowsAt(sh.rows, some)
    IN  [i \in 1..Len(rows) |-> Content(rows[i])]

\* the multiset of the elements of a sequence
BagOf(q) == [x \in Range(q) |-> Cardinality({i \in 1..Len(q) : q[i] = x})]

(***************************************************************************)
(* C21.  A call with mode 'cofnij' leaves in 'raport' the data rows it had *)
(* followed by all the data rows of 'raport_odfiltrowane', leaves          *)
(* 'raport_odfiltrowane' with its header only, and returns moved_to_odf =  *)
(* 0 and returned_to_raport = the number of data rows that were in         *)
(* 'raport_odfiltrowane'.                                                  *)
(***************************************************************************)
C21_CofnijMovesEveryRowBack ==
    \A c \in Calls :
        (c.mode = "cofnij" /\ ~c.raised) =>
            /\ DataRows(c.after.raport)
                 = DataRows(c.before.raport) \o DataRows(c.before.odf)
            /\ c.after.odf.there /\ c.after.odf.rows = <<>>
            /\ c.stats = [moved_to_odf |-> 0,
                          returned_to_raport |-> Len(DataRows(c.before.odf))]

\* a sheet none of whose cells holds a string that is read as missing
NoNaText(sh) ==
    \A i \in 1..Len(sh.rows) : \A c \in DOMAIN sh.rows[i] :
        sh.rows[i][c] \notin NA_VALUES

\* what holds of 'cofnij': when every column of 'raport_odfiltrowane' is a
\* column of 'raport' and no cell holds a text that is read as missing, the
\* rows come back whole
CofnijMovesRowsOfSharedColumns ==
    \A c \in Calls :
        (/\ c.mode = "cofnij" /\ ~c.raised
         /\ Range(c.before.odf.cols) \subseteq Range(c.before.raport.cols)
         /\ NoNaText(c.before.raport) /\ NoNaText(c.before.odf)) =>
            /\ DataRows(c.after.raport)
                 = DataRows(c.before.raport) \o DataRows(c.before.odf)
            /\ c.after.odf = Sheet(c.before.raport.cols, <<>>)
            /\ c.stats = [moved_to_odf |-> 0,
                          returned_to_raport |-> Len(DataRows(c.before.odf))]

\* 'cofnij' counts the rows right even when it loses cells
CofnijCountsDataRows ==
    \A c \in Calls :
        (c.mode = "cofnij" /\ ~c.raised) =>
            /\ c.stats.returned_to_raport = Len(DataRows(c.before.odf))
            /\ c.stats.moved_to_odf = 0

(***************************************************************************)
(* C23.  A call with mode 'brak' leaves the workbook as it was - the same  *)
(* sheets with the same contents - and returns moved_to_odf = 0 and        *)
(* returned_to_raport = 0.                                                 *)
(***************************************************************************)
C23_BrakChangesNothing ==
    \A c \in Calls :
        c.mode = "brak" =>
            /\ ~c.raised
            /\ c.after = c.before
            /\ c.stats = NoStats

\* what holds of 'brak': the data rows of both sheets stay, the statistics
\* are zero, and 'raport_odfiltrowane' is there with every column of
\* 'raport' in its header
BrakKeepsRows ==
    \A c \in Calls :
        (c.mode = "brak" /\ ~c.raised) =>
            /\ c.after.raport = c.before.raport
            /\ DataRows(c.after.odf) = DataRows(c.before.odf)
            /\ c.after.odf.there
            /\ Range(c.after.raport.cols) \subseteq Range(c.after.odf.cols)
            /\ c.stats = NoStats

(***************************************************************************)
(* C24.  Across any sequence of calls the multiset of data rows held in    *)
(* 'raport' together with 'raport_odfiltrowane' stays the initial one, and *)
(* a filtering call followed by 'cofnij' leaves 'raport' with the rows it  *)
(* had before the filtering.                                               *)
(***************************************************************************)
C24_RowsConserved ==
    book # <<>> =>
        /\ BagOf(DataRows(book.wb.raport) \o DataRows(book.wb.odf))
             = BagOf(DataRows(book.first.raport) \o DataRows(book.first.odf))
        /\ \A i \in 1..(Len(book.calls) - 1) :
              (/\ book.calls[i].mode \in {"jeden", "lokal", "oba"}
               /\ book.calls[i + 1].mode = "cofnij") =>
                  BagOf(DataRows(book.calls[i + 1].after.raport))
                    = BagOf(DataRows(book.calls[i].before.raport))

\* what holds of every call: the number of data rows in the two sheets
\* together stays
RowCountConserved ==
    \A c \in Calls :
        Len(DataRows(c.after.raport)) + Len(DataRows(c.after.odf))
          = Len(DataRows(c.before.raport)) + Len(DataRows(c.before.odf))

(***************************************************************************)
(* C22.  In the popraw_adres batch the lookup only fills empty cells: for  *)
(* every row the loop has been through and every address column, a cell   *)
(* that held a value before the lookup (norm_val of it is not "") holds    *)
(* the same value after it, whether the lookup found no candidate, one or  *)
(* several.                                                                *)
(***************************************************************************)
C22_LookupKeepsFilledCells ==
    \A i \in 1..Len(trail) : \A c \in AddrColSet :
        norm_val(trail[i].before[c]) # "" => trail[i].after[c] = trail[i].before[c]

\* a row was looked up with one candidate that filled an empty address cell
\* and spells a filled one differently, and a row was looked up with
\* several candidates
C22_Witness ==
    /\ \E i \in 1..Len(trail) :
          /\ trail[i].lookup /\ trail[i].ncand = 1
          /\ \E c \in AddrColSet : trail[i].after[c] # trail[i].before[c]
          /\ \E c \in AddrColSet :
                /\ norm_val(trail[i].before[c]) # ""
                /\ c \in DOMAIN teryt[FirstOf(trail[i].mask)]
                /\ teryt[FirstOf(trail[i].mask)][c] # trail[i].before[c]
    /\ \E i \in 1..Len(trail) : trail[i].lookup /\ trail[i].ncand > 1

(***************************************************************************)
(* scraper_otodom.py / scraper_otodom_mieszkania.py: _pobierz_soup.        *)
(* SpecNav: calls of _pobierz_soup one after another; the browser decides  *)
(* whether a driver.get raises and whether the page shows up in time.      *)
(***************************************************************************)

\* calls of _pobierz_soup in a run
MaxNav == 3

\* range(3), line 263
Attempts == 3

\* last_err = None
NoErr == -1

InitNav ==
    /\ nav = [pc |-> "idle", attempt |-> 0, last_err |-> NoErr,
              gets |-> <<>>, calls |-> <<>>]
    /\ OthersIdle("nav")

\* lines 238-261: the browser is started, the script is injected
StartNav ==
    /\ nav # <<>>
    /\ nav.pc = "idle"
    /\ Len(nav.calls) < MaxNav
    /\ nav' = [nav EXCEPT !.pc = "get", !.attempt = 0, !.last_err = NoErr,
                          !.gets = <<>>]
    /\ UNCHANGED notNav

\* the test after the loop, lines 270-271: "if last_err and attempt == 2:
\* raise last_err"; the finally clause quits the browser
AfterLoop(n, attempt, last_err, gets) ==
    IF last_err # NoErr /\ attempt = 2
    THEN [n EXCEPT !.pc = "idle", !.gets = gets,
                   !.calls = Append(@, [gets |-> gets, raised |-> TRUE,
                                        error |-> last_err, html |-> FALSE,
                                        waited |-> FALSE, quit |-> TRUE])]
    ELSE [n EXCEPT !.pc = "wait", !.attempt = attempt, !.last_err = last_err,
                   !.gets = gets]

\* one pass of the loop of lines 263-269: driver.get(url) returns (ok) and
\* the loop is left, or raises, the error is kept and the loop goes on
\* after a sleep; after the last pass comes the test of lines 270-271
DriverGet(ok) ==
    /\ nav # <<>>
    /\ nav.pc = "get"
    /\ LET gets == Append(nav.gets, ok)
       IN  nav' = IF ok
                  THEN AfterLoop(nav, nav.attempt, nav.last_err, gets)
                  ELSE IF nav.attempt + 1 < Attempts
                  THEN [nav EXCEPT !.attempt = @ + 1, !.last_err = nav.attempt,
                                   !.gets = gets]
                  ELSE AfterLoop(nav, nav.attempt, nav.attempt, gets)
    /\ UNCHANGED notNav

\* lines 273-287: the wait for the page (found) or its timeout and the
\* sleep, html = driver.page_source, driver.quit(), the soup is returned
ReadPage(found) ==
    /\ nav # <<>>
    /\ nav.pc = "wait"
    /\ nav' = [nav EXCEPT !.pc = "idle",
                          !.calls = Append(@, [gets |-> nav.gets, raised |-> FALSE,
                                               error |-> NoErr, html |-> TRUE,
                                               waited |-> ~found, quit |-> TRUE])]
    /\ UNCHANGED notNav

NextNav ==
    \/ StartNav
    \/ \E ok \in BOOLEAN : DriverGet(ok)
    \/ \E found \in BOOLEAN : ReadPage(found)

SpecNav == InitNav /\ [][NextNav]_vars

\* the calls of _pobierz_soup that have ended
NavCalls == IF nav = <<>> THEN {} ELSE Range(nav.calls)

(***************************************************************************)
(* C25.  _pobierz_soup calls driver.get at most three times, makes no call *)
(* after one that succeeded and then goes on to read the page, and raises  *)
(* the navigation error if and only if all three calls failed.             *)
(***************************************************************************)
C25_RaisesIffAllThreeFailed ==
    \A c \in NavCalls :
        /\ Len(c.gets) <= 3
        /\ \A i \in 1..(Len(c.gets) - 1) : ~c.gets[i]
        /\ c.raised <=> (c.gets = <<FALSE, FALSE, FALSE>>)
        /\ ~c.raised => c.html

\* what holds: at most three calls, none after a success, and the error is
\* raised exactly when the first two calls failed, whatever the third did
RaisesIffFirstTwoFailed ==
    \A c \in NavCalls :
        /\ Len(c.gets) <= 3
        /\ \A i \in 1..(Len(c.gets) - 1) : ~c.gets[i]
        /\ c.raised <=> (Len(c.gets) = 3)
        /\ c.raised => c.error = (IF c.gets[3] THEN 1 ELSE 2)
        /\ ~c.raised => c.html
        /\ c.quit

(***************************************************************************)
(* bazadanych.py: App, the download window.  SpecPipe: the Tk main loop    *)
(* runs button clicks, the callbacks posted with after(0, fn) and the      *)
(* progress poll one at a time; a worker thread runs beside it, one        *)
(* statement group at a time.                                              *)
(***************************************************************************)

\* threads started in a session
MaxWorkers == 2

\* button clicks in a session
MaxPipeClicks == 3

STATUS_START == "Wybierz kategorie;"
STATUS_RUN == "Uruchamiam"
STATUS_STOP1 == "Stop: bl~a;d w etapie 1."
STATUS_DONE == "Zakon'czono"
STATUS_ERR2 == "Zakon'czono z bl~e;dami (etap 2)."

InitPipe ==
    /\ pipe = [window |-> TRUE, workers |-> <<>>, running |-> 0,
               status |-> STATUS_START, phase1 |-> "-", phase2 |-> "-",
               queue |-> <<>>, poll |-> FALSE, clicks |-> <<>>,
               launched |-> <<>>]
    /\ OthersIdle("pipe")

\* thread.is_alive() of the i-th thread started
IsAlive(p, i) == p.workers[i].pc # "dead"

\* the test of line 154 answers "no thread" whatever the thread does
Busy_Never(p) == FALSE

\* self._running_thread and self._running_thread.is_alive(), line 154
Busy(p) == p.running # 0 /\ IsAlive(p, p.running)

\* _start_pipeline, lines 153-194, run by the main loop for a click on a
\* category button; found says whether both scripts were resolved
StartPipeline(found) ==
    /\ pipe # <<>>
    /\ pipe.window
    /\ Len(pipe.clicks) < MaxPipeClicks
    /\ Busy(pipe) \/ ~found \/ Len(pipe.workers) < MaxWorkers
    /\ pipe' =
         IF Busy(pipe)
         THEN [pipe EXCEPT !.clicks = Append(@, [alive |-> Busy(pipe), started |-> FALSE,
                                                 shown |-> "W toku"])]
         ELSE IF ~found
         THEN [pipe EXCEPT !.clicks = Append(@, [alive |-> Busy(pipe), started |-> FALSE,
                                                 shown |-> "Brak pliku"])]
         ELSE [pipe EXCEPT
                 !.status = STATUS_RUN,
                 !.phase1 = "uruchamianie",
                 !.phase2 = "oczekiwanie",
                 !.workers = Append(@, [pc |-> "launch1", exit1 |-> "", exit2 |-> ""]),
                 !.running = Len(pipe.workers) + 1,
                 !.clicks = Append(@, [alive |-> Busy(pipe), started |-> TRUE,
                                       shown |-> ""])]
    /\ UNCHANGED notPipe

\* _set_after, lines 218-220: self.after(0, fn); after the window is
\* destroyed after() raises and the callback is dropped
set_after(p, fn) == IF p.window THEN [p EXCEPT !.queue = Append(@, fn)] ELSE p

\* the worker of thread i, lines 174-190, statement by statement
\* line 175: subprocess.run of the link script is started
Launch1(i) ==
    /\ pipe # <<>> /\ pipe.window
    /\ i \in 1..Len(pipe.workers)
    /\ pipe.workers[i].pc = "launch1"
    /\ pipe' = [pipe EXCEPT !.workers[i].pc = "run1",
                            !.launched = Append(@, [run |-> i, stage |-> 1])]
    /\ UNCHANGED notPipe

\* the ways subprocess.run ends: with an exit code, or with an exception
ScriptEnds == {"0", "1", "FileNotFoundError", "Exception"}

\* _run_script_blocking, lines 209-216: ok is proc.returncode == 0, and
\* False for every exception
run_script_blocking(end) == end = "0"

\* the worker goes on to stage 2 whatever stage 1 returned
AfterStage1_Always2(ok1) == "go2"

\* lines 177-178: "if not ok1: ... return"
AfterStage1(ok1) == IF ok1 THEN "go2" ELSE "fail1"

\* lines 175-176: the link script ends and the stage-1 line is posted
Finish1(i, end) ==
    /\ pipe # <<>> /\ pipe.window
    /\ i \in 1..Len(pipe.workers)
    /\ pipe.workers[i].pc = "run1"
    /\ pipe' = [set_after(pipe, [run |-> i, var |-> "phase1",
                                 val |-> IF run_script_blocking(end) THEN "ok" ELSE "fail"])
                  EXCEPT !.workers[i].pc = AfterStage1(run_script_blocking(end)),
                         !.workers[i].exit1 = end]
    /\ UNCHANGED notPipe

\* lines 177-178: stage 1 failed, the status is posted and the worker returns
Stop1(i) ==
    /\ pipe # <<>> /\ pipe.window
    /\ i \in 1..Len(pipe.workers)
    /\ pipe.workers[i].pc = "fail1"
    /\ pipe' = [set_after(pipe, [run |-> i, var |-> "status", val |-> STATUS_STOP1])
                  EXCEPT !.workers[i].pc = "dead"]
    /\ UNCHANGED notPipe

\* lines 180-184: the stage-2 line and the progress poll are posted,
\* subprocess.run of the scraper script is started
Launch2(i) ==
    /\ pipe # <<>> /\ pipe.window
    /\ i \in 1..Len(pipe.workers)
    /\ pipe.workers[i].pc = "go2"
    /\ pipe' = [set_after(set_after(pipe, [run |-> i, var |-> "phase2",
                                           val |-> "uruchamianie"]),
                          [run |-> i, var |-> "poll", val |-> ""])
                  EXCEPT !.workers[i].pc = "run2",
                         !.launched = Append(@, [run |-> i, stage |-> 2])]
    /\ UNCHANGED notPipe

\* lines 184-190: the scraper script ends, the stage-2 line and the final
\* status are posted and the worker returns
Finish2(i, end) ==
    /\ pipe # <<>> /\ pipe.window
    /\ i \in 1..Len(pipe.workers)
    /\ pipe.workers[i].pc = "run2"
    /\ pipe' = [set_after(set_after(pipe, [run |-> i, var |-> "phase2",
                                           val |-> IF run_script_blocking(end)
                                                   THEN "ok" ELSE "fail"]),
                          [run |-> i, var |-> "status",
                           val |-> IF run_script_blocking(end)
                                   THEN STATUS_DONE ELSE STATUS_ERR2])
                  EXCEPT !.workers[i].pc = "dead",
                         !.workers[i].exit2 = end]
    /\ UNCHANGED notPipe

\* _poll_progress, lines 196-207: the progress file is read (progress: it
\* is there and not empty) and the poll is set again while the thread lives
poll_progress(p, progress) ==
    [p EXCEPT !.phase2 = IF progress THEN "status" ELSE @,
              !.poll = Busy(p)]

\* the main loop runs the oldest callback posted with after(0, fn)
RunCallback(progress) ==
    /\ pipe # <<>> /\ pipe.window
    /\ pipe.queue # <<>>
    /\ LET fn == Head(pipe.queue)
           rest == [pipe EXCEPT !.queue = Tail(@)]
       IN  pipe' = CASE fn.var = "status" -> [rest EXCEPT !.status = fn.val]
                     [] fn.var = "phase1" -> [rest EXCEPT !.phase1 = fn.val]
                     [] fn.var = "phase2" -> [rest EXCEPT !.phase2 = fn.val]
                     [] OTHER -> poll_progress(rest, progress)
    /\ UNCHANGED notPipe

\* the main loop runs _poll_progress set with after(3000, ...), line 207
Poll(progress) ==
    /\ pipe # <<>> /\ pipe.window
    /\ pipe.poll
    /\ pipe' = poll_progress(pipe, progress)
    /\ UNCHANGED notPipe

\* _safe_close, lines 222-226: with a live thread the user is asked first;
\* destroy() ends the main loop and with it the process and its daemon thread
SafeClose(yes) ==
    /\ pipe # <<>> /\ pipe.window
    /\ pipe' = IF Busy(pipe) /\ ~yes THEN pipe ELSE [pipe EXCEPT !.window = FALSE]
    /\ UNCHANGED notPipe

NextPipe ==
    \/ \E found \in BOOLEAN : StartPipeline(found)
    \/ \E i \in 1..MaxWorkers : Launch1(i)
    \/ \E i \in 1..MaxWorkers : \E end \in ScriptEnds : Finish1(i, end)
    \/ \E i \in 1..MaxWorkers : Stop1(i)
    \/ \E i \in 1..MaxWorkers : Launch2(i)
    \/ \E i \in 1..MaxWorkers : \E end \in ScriptEnds : Finish2(i, end)
    \/ \E progress \in BOOLEAN : RunCallback(progress)
    \/ \E progress \in BOOLEAN : Poll(progress)
    \/ \E yes \in BOOLEAN : SafeClose(yes)

SpecPipe == InitPipe /\ [][NextPipe]_vars

\* the threads started so far
Workers == IF pipe = <<>> THEN {} ELSE 1..Len(pipe.workers)

(***************************************************************************)
(* C26.  At most one pipeline worker thread is alive at any time, and a    *)
(* click on a category button that arrives while a worker is alive starts  *)
(* no worker and launches no script.                                       *)
(***************************************************************************)
C26_AtMostOneWorkerAlive ==
    /\ Cardinality({i \in Workers : IsAlive(pipe, i)}) <= 1
    /\ \A i \in Workers : i # pipe.running => ~IsAlive(pipe, i)
    /\ pipe # <<>> =>
          /\ \A k \in 1..Len(pipe.clicks) :
                pipe.clicks[k].alive => ~pipe.clicks[k].started
          /\ Cardinality({k \in 1..Len(pipe.clicks) : pipe.clicks[k].started})
               = Len(pipe.workers)
          /\ \A k \in 1..Len(pipe.launched) :
                \E i \in Workers : pipe.launched[k].run = i

\* a click came while the worker of an earlier click was running its script
\* and was turned away, and a second worker was started after the first ended
C26_Witness ==
    /\ pipe # <<>>
    /\ Len(pipe.workers) = 2
    /\ ~IsAlive(pipe, 1) /\ IsAlive(pipe, 2)
    /\ \E k \in 1..Len(pipe.clicks) :
          pipe.clicks[k].alive /\ pipe.clicks[k].shown = "W toku"

\* the stages launched in run i, in order
Stages(i) ==
    LET mine == SelectSeq(pipe.launched, LAMBDA l : l.run = i)
    IN  [k \in 1..Len(mine) |-> mine[k].stage]

\* no callback of run i waits in the queue
Settled(i) == \A k \in 1..Len(pipe.queue) : pipe.queue[k].run # i

(***************************************************************************)
(* C27.  In a pipeline run stage 2 is started only after stage 1 has       *)
(* finished with exit code 0; if stage 1 fails, stage 2 is never started   *)
(* in that run, and once the run's callbacks have been run the status is   *)
(* the stage-1 error (until a later run sets it).                          *)
(***************************************************************************)
C27_Stage2OnlyAfterStage1Ok ==
    \A i \in Workers :
        /\ Stages(i) \in {<<>>, <<1>>, <<1, 2>>}
        /\ Stages(i) = <<1, 2>> =>
              pipe.workers[i].exit1 = "0" /\ pipe.workers[i].pc \in {"run2", "dead"}
        /\ pipe.workers[i].exit1 \notin {"", "0"} =>
              /\ Stages(i) = <<1>>
              /\ (/\ pipe.workers[i].pc = "dead" /\ Settled(i)
                  /\ pipe.window /\ i = Len(pipe.workers)) =>
                    pipe.status = STATUS_STOP1

\* one run failed in stage 1 and shows the stage-1 error, an earlier one
\* went through both stages
C27_Witness ==
    /\ pipe # <<>> /\ pipe.window
    /\ Len(pipe.workers) = 2
    /\ Stages(1) = <<1, 2>> /\ pipe.workers[1].exit1 = "0"
    /\ pipe.workers[2].pc = "dead" /\ pipe.workers[2].exit1 = "1"
    /\ Stages(2) = <<1>> /\ Settled(2)
    /\ pipe.status = STATUS_STOP1

(***************************************************************************)
(* linki_mieszkania.py: collecting offer links and storing them.           *)
(***************************************************************************)

\* the literal head of _ID_RE, line 102
OFERTA == "/pl/oferta/"

\* the run of digits that s starts with
RECURSIVE DigitRun(_)
DigitRun(s) ==
    IF s # "" /\ Head(s) \in Digits THEN Head(s) \o DigitRun(Tail(s)) ELSE ""

\* the part of s before its first "/"
RECURSIVE UpToSlash(_)
UpToSlash(s) ==
    IF s = "" \/ Head(s) = "/" THEN "" ELSE Head(s) \o UpToSlash(Tail(s))

\* str.rstrip("/")
RECURSIVE RStripSlash(_)
RStripSlash(s) ==
    IF s # "" /\ SubSeq(s, Len(s), Len(s)) = "/"
    THEN RStripSlash(SubSeq(s, 1, Len(s) - 1))
    ELSE s

\* _ID_RE = r"/pl/oferta/[^/]*-(\d{5,})" tried at position i of url: the
\* greedy [^/]* gives way to the last "-" of the path segment that five or
\* more digits follow; group(1) is the run of digits ("" when no match)
IdAt(url, i) ==
    IF i + Len(OFERTA) - 1 > Len(url) \/ SubSeq(url, i, i + Len(OFERTA) - 1) # OFERTA
    THEN ""
    ELSE LET seg == UpToSlash(SubSeq(url, i + Len(OFERTA), Len(url)))
             hs == {h \in 1..Len(seg) :
                      /\ SubSeq(seg, h, h) = "-"
                      /\ Len(DigitRun(SubSeq(seg, h + 1, Len(seg)))) >= 5}
         IN  IF hs = {} THEN ""
             ELSE LET h == CHOOSE x \in hs : \A y \in hs : y <= x
                  IN  DigitRun(SubSeq(seg, h + 1, Len(seg)))

\* _offer_key, lines 103-105: _ID_RE.search(url) takes the leftmost
\* position with a match
offer_key(url) ==
    LET at == {i \in 1..Len(url) : IdAt(url, i) # ""}
    IN  IF at = {} THEN RStripSlash(url)
        ELSE IdAt(url, CHOOSE i \in at : \A j \in at : i <= j)

\* the offer links the site serves: two addresses of one offer, and an
\* offer whose address has no numeric id
LINK_A == "o.pl/pl/oferta/a-12345"
LINK_B == "o.pl/pl/oferta/b-12345"
LINK_D == "o.pl/pl/oferta/d-ID4ab"

OfferLinks == {LINK_A, LINK_B, LINK_D}

\* the sequences without repetition over a set: the orders in which a
\* "for u in links" may go through a set of links
RECURSIVE Orders(_)
Orders(S) ==
    IF S = {} THEN {<<>>}
    ELSE UNION {{<<x>> \o q : q \in Orders(S \ {x})} : x \in S}

\* what a page gives: the fetch fails, or parse_links_from_html yields a
\* set of links, gone through in some order
PageResults ==
    {[ok |-> FALSE, links |-> <<>>]}
    \cup {[ok |-> TRUE, links |-> q] : q \in UNION {Orders(S) : S \in SUBSET OfferLinks}}

\* stop_after_k_empty_pages goes up to this
MaxStreak == 2

\* a page number no run of the loop gets past
MaxPage == 3 * MaxStreak + 2

\* max_pages: None, or an int
MaxPagesArgs ==
    {[limited |-> FALSE, pages |-> 0], [limited |-> TRUE, pages |-> 0],
     [limited |-> TRUE, pages |-> 2]}

\* the offer keys of a list of links
KeysOf(q) == {offer_key(q[i]) : i \in 1..Len(q)}

RECURSIVE NewLinks(_, _)
\* lines 334-339: the links of the page whose key was not seen, each key
\* seen from then on
NewLinks(links, seen_keys) ==
    IF links = <<>> THEN <<>>
    ELSE IF offer_key(Head(links)) \in seen_keys
         THEN NewLinks(Tail(links), seen_keys)
         ELSE <<Head(links)>>
              \o NewLinks(Tail(links), seen_keys \cup {offer_key(Head(links))})

\* the streak is set back by every page
NextStreak_Reset(new_links, empty_streak) == 0

\* lines 341-346: empty_streak = 0 after new links, empty_streak += 1 else
NextStreak(new_links, empty_streak) ==
    IF new_links # <<>> THEN 0 ELSE empty_streak + 1

InitCrawl ==
    /\ \E k \in 0..MaxStreak : \E mp \in MaxPagesArgs :
          crawl = [pc |-> "loop", page |-> 1, empty_streak |-> 0,
                   seen_keys |-> {}, out |-> <<>>, k |-> k, max_pages |-> mp,
                   ended |-> "", pages |-> <<>>]
    /\ OthersIdle("crawl")

\* one pass of "while True", lines 315-353, for what the page gives
CrawlPage(res) ==
    /\ crawl # <<>>
    /\ crawl.pc = "loop"
    /\ crawl.page <= MaxPage
    /\ LET new_links == NewLinks(res.links, crawl.seen_keys)
           streak == NextStreak(new_links, crawl.empty_streak)
           stop(why) == [crawl EXCEPT !.pc = "done", !.ended = why]
           got == [crawl EXCEPT !.pages = Append(@, [ok |-> res.ok, keys |-> KeysOf(res.links)])]
       IN  crawl' =
             IF crawl.max_pages.limited /\ crawl.page > crawl.max_pages.pages
             THEN stop("max_pages")
             ELSE IF ~res.ok
             THEN [got EXCEPT !.pc = "done", !.ended = "fetch"]
             ELSE IF res.links = <<>>
             THEN [got EXCEPT !.pc = "done", !.ended = "no links"]
             ELSE IF new_links = <<>> /\ streak >= crawl.k
             THEN [got EXCEPT !.pc = "done", !.ended = "streak",
                              !.empty_streak = streak]
             ELSE [got EXCEPT
                     !.out = @ \o new_links,
                     !.seen_keys = @ \cup KeysOf(new_links),
                     !.empty_streak = streak,
                     !.page = @ + 1]
    /\ UNCHANGED notCrawl

NextCrawl == \E res \in PageResults : CrawlPage(res)

SpecCrawl == InitCrawl /\ [][NextCrawl]_vars

\* the loop is a sequential program: fetcher.get gives up after
\* RETRIES_NAV tries with a timeout each, so every pass comes to its end
SpecCrawlFair == SpecCrawl /\ WF_vars(NextCrawl)

\* collect_links_all_pages has returned
CrawlDone == crawl # <<>> /\ crawl.pc = "done"

\* the pages that gave links none of which had a new key, counted back
\* from the last page fetched
RECURSIVE TrailingStale(_)
TrailingStale(pages) ==
    IF pages = <<>> THEN 0
    ELSE LET last_ == pages[Len(pages)]
             before == SubSeq(pages, 1, Len(pages) - 1)
             keys_before == UNION {before[i].keys : i \in 1..Len(before)}
         IN  IF last_.ok /\ last_.keys # {} /\ last_.keys \subseteq keys_before
             THEN 1 + TrailingStale(before)
             ELSE 0

\* no two links of a list share an offer key
NoSharedKey(q) == \A i, j \in 1..Len(q) : offer_key(q[i]) = offer_key(q[j]) => i = j

\* what holds in every state of a run: the list has no two links of one
\* offer key, the page number stays under the cap of the model, and a run
\* that has ended ended for one of the four reasons
CrawlSafe ==
    crawl # <<>> =>
        /\ NoSharedKey(crawl.out)
        /\ crawl.pc = "loop" => crawl.page <= MaxPage
        /\ crawl.pc = "done" =>
              \/ /\ crawl.ended = "fetch"
                 /\ ~crawl.pages[Len(crawl.pages)].ok
                 /\ \A i \in 1..(Len(crawl.pages) - 1) : crawl.pages[i].ok
              \/ /\ crawl.ended = "no links"
                 /\ crawl.pages[Len(crawl.pages)] = [ok |-> TRUE, keys |-> {}]
                 /\ \A i \in 1..(Len(crawl.pages) - 1) : crawl.pages[i].keys # {}
              \/ /\ crawl.ended = "max_pages"
                 /\ crawl.max_pages.limited
                 /\ Len(crawl.pages) = crawl.max_pages.pages
              \/ /\ crawl.ended = "streak"
                 /\ TrailingStale(crawl.pages) >= crawl.k
                 /\ TrailingStale(crawl.pages) <= IF crawl.k = 0 THEN 1 ELSE crawl.k

(***************************************************************************)
(* C28.  collect_links_all_pages terminates when the site serves finitely  *)
(* many distinct offers, with max_pages given or not: the loop ends at the *)
(* first failed fetch, at the first page with no links, once page exceeds  *)
(* max_pages, or after stop_after_k_empty_pages pages in a row that bring  *)
(* no new offer key; and the list it returns never holds two links with    *)
(* the same offer key.                                                     *)
(***************************************************************************)
C28_CollectTerminatesWithoutDuplicates == []CrawlSafe /\ <>CrawlDone

\* a run without a page limit that took a link of each offer, went on
\* over pages with nothing new and ended after k of them in a row
C28_Witness ==
    /\ CrawlDone
    /\ ~crawl.max_pages.limited
    /\ crawl.ended = "streak" /\ crawl.k = 2
    /\ Len(crawl.out) = 2
    /\ Len(crawl.pages) > 4
    /\ crawl.out \in {<<LINK_B, LINK_D>>, <<LINK_D, LINK_B>>}

(***************************************************************************)
(* SpecStored: calls of append_links_label on the links file of a region.  *)
(* A file is the sequence of its rows, first cell each; <<>> is a file     *)
(* that is not there.                                                      *)
(***************************************************************************)

\* the header row as csv.writer wrote it with encoding utf-8-sig and as a
\* reader with encoding utf-8 gets it: a byte order mark, then "link"
BOM_LINK == "#link"

LINK_C == "o.pl/pl/oferta/c-1-678901"

RECURSIVE Uniq(_, _)
\* lines 287-291: the first occurrence of each link, in order
Uniq(links, seen) ==
    IF links = <<>> THEN <<>>
    ELSE IF Head(links) \in seen THEN Uniq(Tail(links), seen)
    ELSE <<Head(links)>> \o Uniq(Tail(links), seen \cup {Head(links)})

\* lines 276-286, one file: without a cell "link" in the first row that
\* row counts as a link; rows with an empty first cell are passed over
LinksOfFile(rows) ==
    IF rows = <<>> THEN <<>>
    ELSE LET has_header == Lower(Strip(rows[1])) = "link"
             first == IF ~has_header /\ Strip(rows[1]) # "" THEN <<Strip(rows[1])>> ELSE <<>>
             rest == SelectSeq([i \in 1..(Len(rows) - 1) |-> Strip(rows[i + 1])],
                               LAMBDA u : u # "")
         IN  first \o rest

\* _read_links_any, lines 267-292: the label file, then the legacy files
read_links_any(file, legacy) == Uniq(LinksOfFile(file) \o LinksOfFile(legacy), {})

\* every link given is written, stored or not
ToWrite_All(links, existing, existing_keys) == links

RECURSIVE ToWrite(_, _, _)
\* lines 393-398: the links to write, each neither stored nor of a stored key
ToWrite(links, existing, existing_keys) ==
    IF links = <<>> THEN <<>>
    ELSE IF Head(links) \notin existing /\ offer_key(Head(links)) \notin existing_keys
         THEN <<Head(links)>>
              \o ToWrite(Tail(links), existing \cup {Head(links)},
                         existing_keys \cup {offer_key(Head(links))})
         ELSE ToWrite(Tail(links), existing, existing_keys)

\* append_links_label, lines 390-408: the file it leaves and what it returns
append_links_label(links, file, legacy) ==
    LET existing == Range(read_links_any(file, legacy))
        existing_keys == {offer_key(u) : u \in existing}
        to_write == ToWrite(links, existing, existing_keys)
        out_file == IF file = <<>> THEN <<BOM_LINK>> ELSE file
    IN  [file |-> out_file \o to_write, ret |-> Len(to_write)]

\* the links files a region starts with: none, one with the header only,
\* one with a link, one with a link and no header
StartFiles == {<<>>, <<BOM_LINK>>, <<BOM_LINK, LINK_A>>, <<"link", LINK_D>>, <<LINK_C>>}

\* the legacy file of the region: none, or one with a link
LegacyFiles == {<<>>, <<"link", LINK_B>>}

\* the lists collect_links_all_pages hands over
LinkLists ==
    {<<>>, <<LINK_A>>, <<LINK_B, LINK_D>>, <<LINK_A, LINK_B>>, <<LINK_D, LINK_C, LINK_D>>}

\* calls of append_links_label in a run
MaxAppends == 3

InitStored ==
    /\ \E f \in StartFiles : \E l \in LegacyFiles :
          stored = [file |-> f, legacy |-> l, calls |-> <<>>]
    /\ OthersIdle("stored")

\* one call append_links_label(links, label, slug)
AppendLinks(links) ==
    /\ stored # <<>>
    /\ Len(stored.calls) < MaxAppends
    /\ LET out == append_links_label(links, stored.file, stored.legacy)
       IN  stored' = [stored EXCEPT
                        !.file = out.file,
                        !.calls = Append(@, [links |-> links, before |-> stored.file,
                                             after |-> out.file, ret |-> out.ret])]
    /\ UNCHANGED notStored

NextStored == \E links \in LinkLists : AppendLinks(links)

SpecStored == InitStored /\ [][NextStored]_vars

\* the calls of append_links_label made so far
Appends == IF stored = <<>> THEN {} ELSE Range(stored.calls)

\* the links a file holds: its rows but the header
StoredLinks(rows) ==
    SelectSeq(rows, LAMBDA u : u \notin {BOM_LINK, "link"})

MaxLinks == 2

\* range(2), line 469
FetchAttempts == 2

\* how a call pobierz_dane_z_otodom(link) ends: a dict with a price, a
\* dict without one, an exception _is_remote_closed says yes to, another
\* exception
FetchEnds == {"record", "no price", "remote closed", "error"}

Failed(end) == end \in {"remote closed", "error"}

\* every failure of the first attempt is tried again
Retry_AnyFailure(end, attempt) == Failed(end) /\ attempt = 0

\* line 474: "if _is_remote_closed(e) and attempt == 0"
Retry(end, attempt) == end = "remote closed" /\ attempt = 0

InitFetch ==
    /\ fetch = [pc |-> "start", links |-> <<>>, i |-> 1, attempt |-> 0,
                log |-> <<>>, dane_lista |-> <<>>, written |-> <<>>]
    /\ OthersIdle("fetch")

\* lines 454-464: the links are read from the input file
ReadLinks(links) ==
    /\ fetch # <<>>
    /\ fetch.pc = "start"
    /\ fetch' = [fetch EXCEPT !.links = links,
                              !.pc = IF links = <<>> THEN "done" ELSE "loop"]
    /\ UNCHANGED notFetch

\* lines 466-485: one call of pobierz_dane_z_otodom for the link at i and
\* what the loop does with its end
FetchLink(end) ==
    /\ fetch # <<>>
    /\ fetch.pc = "loop"
    /\ fetch.i <= Len(fetch.links)
    /\ LET logged == [fetch EXCEPT !.log = Append(@, [i |-> fetch.i,
                                                      attempt |-> fetch.attempt,
                                                      end |-> end])]
       IN  fetch' =
             IF Failed(end) /\ Retry(end, fetch.attempt) /\ fetch.attempt + 1 < FetchAttempts
             THEN [logged EXCEPT !.attempt = @ + 1]
             ELSE [logged EXCEPT
                     !.i = @ + 1,
                     !.attempt = 0,
                     !.dane_lista = IF end = "record" THEN Append(@, fetch.i) ELSE @]
    /\ UNCHANGED notFetch

\* lines 487-488: the records are appended to the output file
WriteRecords ==
    /\ fetch # <<>>
    /\ fetch.pc = "loop"
    /\ fetch.i > Len(fetch.links)
    /\ fetch' = [fetch EXCEPT !.written = fetch.dane_lista, !.pc = "done"]
    /\ UNCHANGED notFetch

NextFetch ==
    \/ \E n \in 0..MaxLinks : \E links \in [1..n -> {LINK_A, LINK_D}] : ReadLinks(links)
    \/ \E end \in FetchEnds : FetchLink(end)
    \/ WriteRecords

SpecFetch == InitFetch /\ [][NextFetch]_vars

\* the calls of pobierz_dane_z_otodom made for the link at position i
CallsFor(i) == SelectSeq(fetch.log, LAMBDA c : c.i = i)

(***************************************************************************)
(* C29.  Each link is fetched at most twice; a second attempt is made only *)
(* when the first ended in a remote-closed network error; after any other  *)
(* failure, or a failed second attempt, the link gives no record and the   *)
(* loop is at a later link.                                                *)
(***************************************************************************)
C29_AtMostOneRetryOnRemoteClosed ==
    fetch # <<>> =>
        \A i \in 1..Len(fetch.links) :
            LET calls == CallsFor(i)
            IN  /\ Len(calls) <= 2
                /\ Len(calls) = 2 => calls[1].end = "remote closed"
                /\ (\/ Len(calls) >= 1 /\ calls[1].end = "error"
                    \/ Len(calls) = 2 /\ Failed(calls[2].end)) =>
                        /\ i \notin Range(fetch.dane_lista)
                        /\ fetch.i > i
                /\ \A k \in 1..Len(fetch.log) :
                      fetch.log[k].i = i => \A m \in 1..k : fetch.log[m].i <= i

\* the run is over: one link was fetched twice and gave a record at the
\* second attempt, the other failed at once and gave none
C29_Witness ==
    /\ fetch # <<>>
    /\ fetch.pc = "done"
    /\ Len(fetch.links) = 2
    /\ Len(CallsFor(1)) = 2 /\ CallsFor(1)[2].end = "record"
    /\ Len(CallsFor(2)) = 1 /\ CallsFor(2)[1].end = "error"
    /\ fetch.written = <<1>>

====
